---- MODULE Spec2Model ----
(***************************************************************************)
(* A model of the path-based layered state store: the layer tree           *)
(* (triedb/pathdb/layertree.go), its lookup index (lookup.go), the disk    *)
(* layer with its aggregation buffer (disklayer.go, buffer.go) and the     *)
(* state history log.                                                      *)
(*                                                                         *)
(* State roots are the numbers 1..MaxRoot, 0 is the zero hash.  The store  *)
(* tracks one account, one storage slot of it and one trie node path; a    *)
(* layer with root r that writes a key writes the value r, so a value      *)
(* names the layer that wrote it.  0 is the empty value (a deletion, or a  *)
(* key that is not there) and Absent marks a key a map does not hold.      *)
(***************************************************************************)
EXTENDS Integers, Sequences, FiniteSets, TLC

\* Number of state roots: the initial disk state and MaxRoot - 1 added layers.
MaxRoot == 4

\* buffer.limit, in entries (the config's write buffer size).
BufferLimit == 2

\* db.config.StateHistory, the number of retained state histories.
StateHistory == 2

ZeroHash == 0
Absent == -1
Roots == 1 .. MaxRoot

\* References to layer objects: a diff layer is named by its root (every
\* root is added once), a disk layer by its position in disks.
NoRef == <<"none", 0>>
DiffRef(r) == <<"diff", r>>
DiskRef(i) == <<"disk", i>>
IsDiff(ref) == ref[1] = "diff"
IsDisk(ref) == ref[1] = "disk"

VARIABLES
    diffs,        \* diff layer objects: root -> record
    disks,        \* disk layer objects: sequence of [root, id, stale]
    base,         \* tree.base, an index of disks
    layers,       \* tree.layers: root -> reference
    descendants,  \* tree.descendants: root -> set of roots
    lookup,       \* tree.lookup: the lists of the four indices
    buffer,       \* the buffer shared by the successive disk layers
    cache,        \* the clean caches shared by the successive disk layers
    kv,           \* the key-value store
    freezer,      \* the state history log, or unused when freezerOn is FALSE
    freezerOn,    \* db.freezer != nil
    gt,           \* the content of every state, by root (history variable)
    numRoots,     \* the roots 1..numRoots have been used
    fatal,        \* the process panicked
    fl,           \* the buffer flush in progress, for the stepwise flush
    rd,           \* the reading thread, for the interleaved reads
    wr,           \* the flattening or committing thread, likewise
    it,           \* the merged iterator, for the iteration over a stack of layers
    boots         \* the number of times the store was opened

vars == <<diffs, disks, base, layers, descendants, lookup, buffer, cache, kv,
          freezer, freezerOn, gt, numRoots, fatal, fl, rd, wr, it, boots>>

----------------------------------------------------------------------------
(* Small helpers *)

Min(a, b) == IF a < b THEN a ELSE b

\* f with key k bound to v (k may be new).
Put(f, k, v) == [x \in DOMAIN f \cup {k} |-> IF x = k THEN v ELSE f[x]]

\* f without the keys of ks.
Drop(f, ks) == [x \in DOMAIN f \ ks |-> f[x]]

EmptyMap == [x \in {} |-> 0]

\* s without its first occurrence of x, as the deletion loops of removeLayer.
RECURSIVE RemoveFirst(_, _)
RemoveFirst(s, x) ==
    IF s = <<>> THEN <<>>
    ELSE IF Head(s) = x THEN Tail(s)
    ELSE <<Head(s)>> \o RemoveFirst(Tail(s), x)

----------------------------------------------------------------------------
(* State transitions carried by a layer *)

\* The changes a block makes to the tracked account, its slot and its node:
\* none, an account update, an update with a slot write, a self-destruct
\* (the account and its node deleted) and a destruct with re-creation.
Changes ==
    { [node |-> "none",   destruct |-> FALSE, acct |-> "none",   slot |-> "none"],
      [node |-> "write",  destruct |-> FALSE, acct |-> "write",  slot |-> "none"],
      [node |-> "write",  destruct |-> FALSE, acct |-> "write",  slot |-> "write"],
      [node |-> "delete", destruct |-> TRUE,  acct |-> "delete", slot |-> "none"],
      [node |-> "write",  destruct |-> TRUE,  acct |-> "write",  slot |-> "write"] }

NoChange ==
    [node |-> "none", destruct |-> FALSE, acct |-> "none", slot |-> "none"]

ValueOf(op, root) ==
    CASE op = "none" -> Absent
      [] op = "write" -> root
      [] op = "delete" -> 0

\* The state after a layer's changes are applied to its parent state p.
ApplyChange(p, c, root) ==
    [node |-> IF c.node # "none" THEN ValueOf(c.node, root) ELSE p.node,
     acct |-> IF c.acct # "none" THEN ValueOf(c.acct, root)
              ELSE IF c.destruct THEN 0 ELSE p.acct,
     slot |-> IF c.slot # "none" THEN ValueOf(c.slot, root)
              ELSE IF c.destruct THEN 0 ELSE p.slot]

\* The content of the state the store is opened on: the three keys hold the
\* values written by the initial root.
InitialState == [node |-> 1, acct |-> 1, slot |-> 1]

----------------------------------------------------------------------------
(* Layer objects *)

rootHash(dfs, dks, ref) ==
    IF IsDiff(ref) THEN ref[2] ELSE dks[ref[2]].root

stateID(dfs, dks, ref) ==
    IF IsDiff(ref) THEN dfs[ref[2]].id ELSE dks[ref[2]].id

\* A disk layer has no parent.
parentLayer(dfs, dks, ref) ==
    IF IsDiff(ref) THEN dfs[ref[2]].parent ELSE NoRef

\* The layers on the parent path of ref, ref excluded, nearest first.
RECURSIVE ParentPath(_, _, _)
ParentPath(dfs, dks, ref) ==
    LET p == parentLayer(dfs, dks, ref)
    IN IF p = NoRef THEN <<>> ELSE <<p>> \o ParentPath(dfs, dks, p)

ancestorRefs(dfs, dks, ref) ==
    LET path == ParentPath(dfs, dks, ref)
    IN {path[i] : i \in 1 .. Len(path)}

ancestors(dfs, dks, ref) ==
    LET path == ParentPath(dfs, dks, ref)
    IN {rootHash(dfs, dks, path[i]) : i \in 1 .. Len(path)}

\* diskLayer.update and newDiffLayer: the layer of state root on top of
\* parent, carrying the change c and the values it replaces.
update(dfs, dks, parent, root, id, c, before) ==
    [parent |-> parent,
     id |-> id,
     node |-> ValueOf(c.node, root),
     destruct |-> c.destruct,
     acct |-> ValueOf(c.acct, root),
     slot |-> ValueOf(c.slot, root),
     onode |-> IF c.node # "none" THEN before.node ELSE Absent,
     oacct |-> IF c.acct # "none" \/ c.destruct THEN before.acct ELSE Absent,
     oslot |-> IF c.slot # "none" \/ c.destruct THEN before.slot ELSE Absent,
     stale |-> FALSE]

----------------------------------------------------------------------------
(* The lookup index *)

EmptyLookup == [nodes |-> <<>>, destructs |-> <<>>, accounts |-> <<>>,
                storages |-> <<>>]

isDescendant(desc, root, ancestor) ==
    ancestor \in DOMAIN desc /\ root \in desc[ancestor]

\* The last entry of list that is head or an ancestor of head, or the zero
\* hash.
findTip(desc, list, head) ==
    LET hits == {i \in 1 .. Len(list) :
                    list[i] = head \/ isDescendant(desc, head, list[i])}
    IN IF hits = {} THEN ZeroHash
       ELSE list[CHOOSE i \in hits : \A j \in hits : j <= i]

nodeTip(lk, desc, head) == findTip(desc, lk.nodes, head)

\* stateTip as it would be with the tip of the states preferred whenever
\* there is one, the destruct above it not looked at.
stateTipStatesFirst(desc, destructs, states, head) ==
    LET tipA == findTip(desc, destructs, head)
        tipB == findTip(desc, states, head)
    IN IF tipB # ZeroHash THEN tipB ELSE tipA

stateTip(desc, destructs, states, head) ==
    LET tipA == findTip(desc, destructs, head)
        tipB == findTip(desc, states, head)
    IN CASE tipA = ZeroHash /\ tipB = ZeroHash -> ZeroHash
         [] tipA = ZeroHash /\ tipB # ZeroHash -> tipB
         [] tipA # ZeroHash /\ tipB = ZeroHash -> tipA
         [] OTHER -> IF tipA = tipB THEN tipA
                     ELSE IF isDescendant(desc, tipA, tipB) THEN tipA
                     ELSE tipB

accountTip(lk, desc, head) == stateTip(desc, lk.destructs, lk.accounts, head)

storageTip(lk, desc, head) == stateTip(desc, lk.destructs, lk.storages, head)

\* addLayer as it would be with the state put at the front of the lists.
addLayerFront(lk, d, state) ==
    [nodes |-> IF d.node # Absent THEN <<state>> \o lk.nodes ELSE lk.nodes,
     destructs |-> IF d.destruct THEN <<state>> \o lk.destructs
                   ELSE lk.destructs,
     accounts |-> IF d.acct # Absent THEN <<state>> \o lk.accounts
                  ELSE lk.accounts,
     storages |-> IF d.slot # Absent THEN <<state>> \o lk.storages
                  ELSE lk.storages]

addLayer(lk, d, state) ==
    [nodes |-> IF d.node # Absent THEN Append(lk.nodes, state) ELSE lk.nodes,
     destructs |-> IF d.destruct THEN Append(lk.destructs, state)
                   ELSE lk.destructs,
     accounts |-> IF d.acct # Absent THEN Append(lk.accounts, state)
                  ELSE lk.accounts,
     storages |-> IF d.slot # Absent THEN Append(lk.storages, state)
                  ELSE lk.storages]

\* removeLayer deletes the state from the list of every key the layer
\* holds; a list that misses it makes the call fail, which cap ignores.
\* removeLayer as it would be with the list of the nodes left as it is.
removeLayerKeepNodes(lk, d, state) ==
    [nodes |-> lk.nodes,
     destructs |-> IF d.destruct THEN RemoveFirst(lk.destructs, state)
                   ELSE lk.destructs,
     accounts |-> IF d.acct # Absent THEN RemoveFirst(lk.accounts, state)
                  ELSE lk.accounts,
     storages |-> IF d.slot # Absent THEN RemoveFirst(lk.storages, state)
                  ELSE lk.storages]

removeLayer(lk, d, state) ==
    [nodes |-> IF d.node # Absent THEN RemoveFirst(lk.nodes, state)
               ELSE lk.nodes,
     destructs |-> IF d.destruct THEN RemoveFirst(lk.destructs, state)
                   ELSE lk.destructs,
     accounts |-> IF d.acct # Absent THEN RemoveFirst(lk.accounts, state)
                  ELSE lk.accounts,
     storages |-> IF d.slot # Absent THEN RemoveFirst(lk.storages, state)
                  ELSE lk.storages]

----------------------------------------------------------------------------
(* Initial state: newLayerTree on a disk layer with state id 0 *)

EmptyBuffer == [layers |-> 0, node |-> Absent, destruct |-> FALSE,
                acct |-> Absent, slot |-> Absent]

EmptyCache == [node |-> Absent, acct |-> Absent, slot |-> Absent]

NoBatch == [node |-> Absent, destruct |-> FALSE, acct |-> Absent,
            slot |-> Absent, sid |-> Absent, srt |-> Absent]

NoFlush == [pc |-> "none", batch |-> NoBatch, root |-> 0, id |-> 0,
            pre |-> <<>>, buf |-> <<>>]

NoReader == [pc |-> "idle", root |-> 0, handle |-> NoRef, at |-> NoRef,
             method |-> "", locks |-> {},
             res |-> [err |-> "", val |-> Absent]]

\* held is the layer a pending add got from the tree, call the pending call.
NoWriter == [pc |-> "idle", mode |-> "", dl |-> 0, parent |-> 0, keep |-> 0,
             failRoot |-> 0, disk |-> 0, held |-> NoRef, call |-> <<>>]

\* No iterator is open.
NoIter ==
    [kind |-> "none", stack |-> <<>>, seek |-> 0, pos |-> <<>>, out |-> <<>>,
     pc |-> "none"]

Init ==
    /\ diffs = EmptyMap
    /\ disks = <<[root |-> 1, id |-> 0, stale |-> FALSE]>>
    /\ base = 1
    /\ layers = (1 :> DiskRef(1))
    /\ descendants = EmptyMap
    /\ lookup = EmptyLookup
    /\ buffer = EmptyBuffer
    /\ cache = EmptyCache
    /\ kv = [node |-> InitialState.node, acct |-> InitialState.acct,
             slot |-> InitialState.slot, sid |-> 0, srt |-> 1,
             rid |-> EmptyMap]
    /\ gt = (1 :> InitialState)
    /\ freezerOn \in BOOLEAN
    /\ freezer = [tail |-> 0, hist |-> <<>>]
    /\ numRoots = 1
    /\ fatal = FALSE
    /\ fl = NoFlush
    /\ rd = NoReader
    /\ wr = NoWriter
    /\ it = NoIter
    /\ boots = 1

----------------------------------------------------------------------------
(* layerTree.add *)

\* descendants with root added under every root of hs.
Link(desc, hs, root) ==
    [h \in DOMAIN desc \cup hs |->
        IF h \in hs
        THEN (IF h \in DOMAIN desc THEN desc[h] ELSE {}) \cup {root}
        ELSE desc[h]]

\* The state an operation works on, with its outcome: err is the error it
\* returns ("" for none), res the disk layer a commit returns.
Cur ==
    [diffs |-> diffs, disks |-> disks, base |-> base, layers |-> layers,
     descendants |-> descendants, lookup |-> lookup, buffer |-> buffer,
     cache |-> cache, kv |-> kv, freezer |-> freezer, gt |-> gt,
     numRoots |-> numRoots, fatal |-> fatal, err |-> "", res |-> 0]

\* The diff layers a reference reaches by parent links, itself included.
Reached(s, ref) ==
    IF IsDiff(ref)
    THEN {ref[2]} \cup {x[2] : x \in {y \in ancestorRefs(s.diffs, s.disks, ref) :
                                       IsDiff(y)}}
    ELSE {}

\* The diff layers of s in use: those a layer of the tree or a reference
\* held by the reading or the adding thread reaches.
Live(s) ==
    UNION {Reached(s, s.layers[r]) : r \in DOMAIN s.layers}
        \cup Reached(s, rd.handle) \cup Reached(s, rd.at)
        \cup Reached(s, wr.held)

\* The roots whose content is still of use: those of the tree, of the live
\* layers, of the state histories, of the reading thread and of the
\* persistent state.
Known(s) ==
    DOMAIN s.layers \cup Live(s) \cup ({rd.root} \ {0}) \cup {s.kv.srt}
        \cup {s.freezer.hist[k].root : k \in 1 .. Len(s.freezer.hist)}
        \cup {s.freezer.hist[k].parent : k \in 1 .. Len(s.freezer.hist)}

\* The state s becomes the current one; the diff layers nothing refers to
\* are collected.
Install(s) ==
    /\ diffs' = [r \in Live(s) |-> s.diffs[r]]
    /\ disks' = s.disks
    /\ base' = s.base
    /\ layers' = s.layers
    /\ descendants' = s.descendants
    /\ lookup' = s.lookup
    /\ buffer' = s.buffer
    /\ cache' = s.cache
    /\ kv' = s.kv
    /\ freezer' = s.freezer
    /\ gt' = [r \in Known(s) |-> s.gt[r]]
    /\ numRoots' = s.numRoots
    /\ fatal' = s.fatal
    /\ UNCHANGED <<freezerOn, it>>

\* add as it would be with the new root linked under its parent before the
\* parent is looked up: a rejected add leaves a trace in descendants.
addLinked(s, root, parentRoot, c) ==
    IF root = parentRoot THEN [s EXCEPT !.err = "layer cycle"]
    ELSE IF parentRoot \notin DOMAIN s.layers
    THEN [s EXCEPT !.err = "parent layer missing",
                   !.descendants = Link(s.descendants, {parentRoot}, root)]
    ELSE LET parent == s.layers[parentRoot]
             l == update(s.diffs, s.disks, parent, root,
                         stateID(s.diffs, s.disks, parent) + 1, c,
                         s.gt[parentRoot])
             dfs == Put(s.diffs, root, l)
         IN [s EXCEPT
               !.diffs = dfs,
               !.layers = Put(s.layers, root, DiffRef(root)),
               !.descendants = Link(s.descendants,
                                    ancestors(dfs, s.disks, DiffRef(root)),
                                    root),
               !.lookup = addLayer(s.lookup, l, root),
               !.gt = Put(s.gt, root, ApplyChange(s.gt[parentRoot], c, root)),
               !.numRoots = s.numRoots + 1]

add(s, root, parentRoot, c) ==
    IF root = parentRoot THEN [s EXCEPT !.err = "layer cycle"]
    ELSE IF parentRoot \notin DOMAIN s.layers
    THEN [s EXCEPT !.err = "parent layer missing"]
    ELSE LET parent == s.layers[parentRoot]
             l == update(s.diffs, s.disks, parent, root,
                         stateID(s.diffs, s.disks, parent) + 1, c,
                         s.gt[parentRoot])
             dfs == Put(s.diffs, root, l)
         IN [s EXCEPT
               !.diffs = dfs,
               !.layers = Put(s.layers, root, DiffRef(root)),
               !.descendants = Link(s.descendants,
                                    ancestors(dfs, s.disks, DiffRef(root)),
                                    root),
               !.lookup = addLayer(s.lookup, l, root),
               !.gt = Put(s.gt, root, ApplyChange(s.gt[parentRoot], c, root)),
               !.numRoots = s.numRoots + 1]

\* A new state has a fresh root; an empty block repeats its parent's root.
Add ==
    /\ ~fatal
    /\ UNCHANGED <<fl, rd, wr, boots>>
    /\ \E parentRoot \in Roots :
          \/ /\ numRoots < MaxRoot
             /\ \E c \in Changes :
                   Install(add(Cur, numRoots + 1, parentRoot, c))
          \/ Install(add(Cur, parentRoot, parentRoot, NoChange))

----------------------------------------------------------------------------
(* The buffer *)

\* buffer.commit: nodeSet.merge and stateSet.merge of a layer into the buffer.
\* A destruct of the newer layer drops the account's buffered writes.
bufferCommit(b, d) ==
    [layers |-> b.layers + 1,
     node |-> IF d.node # Absent THEN d.node ELSE b.node,
     destruct |-> b.destruct \/ d.destruct,
     acct |-> IF d.acct # Absent THEN d.acct
              ELSE IF d.destruct THEN Absent ELSE b.acct,
     slot |-> IF d.slot # Absent THEN d.slot
              ELSE IF d.destruct THEN Absent ELSE b.slot]

One(cond) == IF cond THEN 1 ELSE 0

bufferSize(b) ==
    One(b.node # Absent) + One(b.destruct) + One(b.acct # Absent)
        + One(b.slot # Absent)

bufferFull(b) == bufferSize(b) > BufferLimit

bufferEmpty(b) == b.layers = 0

\* nodeSet.write and stateSet.write: the records of the batch, applied to a
\* store s, destructs first.
writeBuffer(s, b) ==
    [s EXCEPT
        !.node = IF b.node # Absent THEN b.node ELSE @,
        !.acct = IF b.acct # Absent THEN b.acct
                 ELSE IF b.destruct THEN 0 ELSE @,
        !.slot = IF b.slot # Absent THEN b.slot
                 ELSE IF b.destruct THEN 0 ELSE @]

\* The clean caches receive the written entries; the node cache drops a
\* deleted node, the state cache keeps the empty value.
writeCache(c, b) ==
    [node |-> IF b.node = Absent THEN c.node
              ELSE IF b.node = 0 THEN Absent ELSE b.node,
     acct |-> IF b.acct # Absent THEN b.acct
              ELSE IF b.destruct THEN 0 ELSE c.acct,
     slot |-> IF b.slot # Absent THEN b.slot
              ELSE IF b.destruct THEN 0 ELSE c.slot]

\* buffer.flush.  ioFail: batch.Write returns an error.
flush(w, root, id, ioFail) ==
    IF w.kv.sid + w.buffer.layers # id
    THEN [w EXCEPT !.err = "buffer layers can't be applied"]
    ELSE LET w1 == [w EXCEPT !.cache = writeCache(w.cache, w.buffer)]
         IN IF ioFail
            THEN [w1 EXCEPT !.err = "batch write failed"]
            ELSE [w1 EXCEPT
                    !.kv = [writeBuffer(w.kv, w.buffer) EXCEPT
                               !.sid = id, !.srt = root],
                    !.buffer = EmptyBuffer]

----------------------------------------------------------------------------
(* The state history *)

historyHead(fr) == fr.tail + Len(fr.hist)

\* The history of the transition a bottom diff layer carries.
historyOf(root, parentRoot, d) ==
    [id |-> d.id, root |-> root, parent |-> parentRoot,
     onode |-> d.onode, oacct |-> d.oacct, oslot |-> d.oslot]

\* writeHistory: the freezer takes the entry at the next index only.
writeHistory(fr, h) ==
    IF h.id # historyHead(fr) + 1
    THEN [err |-> TRUE, freezer |-> fr]
    ELSE [err |-> FALSE, freezer |-> [fr EXCEPT !.hist = Append(@, h)]]

\* truncateFromTail as it would be with one history more left in the log.
truncateFromTailLate(w, head, limit) ==
    IF head <= limit + 1 THEN w
    ELSE LET oldTail == w.freezer.tail
             newTail == head - limit - 1
             gone == {w.freezer.hist[k].root :
                         k \in 1 .. Min(newTail - oldTail, Len(w.freezer.hist))}
         IN IF newTail <= oldTail THEN w
            ELSE [w EXCEPT
                    !.kv.rid = Drop(@, gone),
                    !.freezer = [tail |-> newTail,
                                 hist |-> SubSeq(w.freezer.hist,
                                                 newTail - oldTail + 1,
                                                 Len(w.freezer.hist))]]

\* truncateFromTail: the histories up to head - limit are removed, with
\* their root -> id lookups.
truncateFromTail(w, head, limit) ==
    IF head <= limit THEN w
    ELSE LET oldTail == w.freezer.tail
             newTail == head - limit
             gone == {w.freezer.hist[k].root :
                         k \in 1 .. Min(newTail - oldTail, Len(w.freezer.hist))}
         IN IF newTail <= oldTail THEN w
            ELSE [w EXCEPT
                    !.kv.rid = Drop(@, gone),
                    !.freezer = [tail |-> newTail,
                                 hist |-> SubSeq(w.freezer.hist,
                                                 newTail - oldTail + 1,
                                                 Len(w.freezer.hist))]]

----------------------------------------------------------------------------
(* diskLayer.commit *)

newDiskLayer(w, root, id) ==
    [w EXCEPT !.disks = Append(@, [root |-> root, id |-> id, stale |-> FALSE]),
              !.res = Len(w.disks) + 1]

\* commit as it would be without the raise of force when the tail
\* truncation passes the persisted state id.
commitAsAsked(w, i, r, force, failRoot) ==
    LET dl == w.disks[i]
        bottom == w.diffs[r]
        hw == writeHistory(w.freezer, historyOf(r, dl.root, bottom))
    IN IF freezerOn /\ hw.err
       THEN [w EXCEPT !.err = "history out of order"]
       ELSE
         LET fr == IF freezerOn THEN hw.freezer ELSE w.freezer
             overflow == /\ freezerOn
                         /\ StateHistory # 0
                         /\ bottom.id - fr.tail > StateHistory
         IN IF dl.stale
            THEN [w EXCEPT !.freezer = fr, !.fatal = TRUE,
                           !.err = "triedb disk layer is stale"]
            ELSE
              LET rid0 == IF dl.id = 0 THEN Put(w.kv.rid, dl.root, 0)
                          ELSE w.kv.rid
                  combined == bufferCommit(w.buffer, bottom)
                  w1 == [w EXCEPT !.freezer = fr,
                                  !.disks[i].stale = TRUE,
                                  !.kv.rid = Put(rid0, r, bottom.id),
                                  !.buffer = combined]
                  w2 == IF bufferFull(combined) \/ force
                        THEN flush(w1, r, bottom.id, failRoot = r)
                        ELSE w1
              IN IF w2.err # "" THEN w2
                 ELSE LET w3 == newDiskLayer(w2, r, bottom.id)
                      IN IF overflow
                         THEN truncateFromTail(w3, bottom.id, StateHistory)
                         ELSE w3

\* commit of the diff layer r on the disk layer i.  failRoot: the layer
\* whose flush fails in batch.Write, or none.
commit(w, i, r, force, failRoot) ==
    LET dl == w.disks[i]
        bottom == w.diffs[r]
        hw == writeHistory(w.freezer, historyOf(r, dl.root, bottom))
    IN IF freezerOn /\ hw.err
       THEN [w EXCEPT !.err = "history out of order"]
       ELSE
         LET fr == IF freezerOn THEN hw.freezer ELSE w.freezer
             overflow == /\ freezerOn
                         /\ StateHistory # 0
                         /\ bottom.id - fr.tail > StateHistory
             oldest == IF overflow THEN bottom.id - StateHistory + 1 ELSE 0
         IN IF dl.stale
            THEN [w EXCEPT !.freezer = fr, !.fatal = TRUE,
                           !.err = "triedb disk layer is stale"]
            ELSE
              LET rid0 == IF dl.id = 0 THEN Put(w.kv.rid, dl.root, 0)
                          ELSE w.kv.rid
                  forced == force \/ w.kv.sid < oldest
                  combined == bufferCommit(w.buffer, bottom)
                  w1 == [w EXCEPT !.freezer = fr,
                                  !.disks[i].stale = TRUE,
                                  !.kv.rid = Put(rid0, r, bottom.id),
                                  !.buffer = combined]
                  w2 == IF bufferFull(combined) \/ forced
                        THEN flush(w1, r, bottom.id, failRoot = r)
                        ELSE w1
              IN IF w2.err # "" THEN w2
                 ELSE LET w3 == newDiskLayer(w2, r, bottom.id)
                      IN IF overflow
                         THEN truncateFromTail(w3, bottom.id, StateHistory)
                         ELSE w3

\* diffLayer.persist: the diff layers below are persisted first, each by a
\* commit of its own, and the layer is linked to the disk layer they gave.
RECURSIVE persist(_, _, _, _)
persist(w, r, force, failRoot) ==
    LET p == w.diffs[r].parent
    IN IF IsDiff(p)
       THEN LET w1 == persist(w, p[2], force, failRoot)
            IN IF w1.err # "" THEN w1
               ELSE commit([w1 EXCEPT !.diffs[r].parent = DiskRef(w1.res)],
                           w1.res, r, force, failRoot)
       ELSE commit(w, p[2], r, force, failRoot)

----------------------------------------------------------------------------
(* Reads *)

Keys == {"node", "acct", "slot"}

Value(v) == [err |-> "", val |-> v]
errSnapshotStale == [err |-> "stale", val |-> Absent]

\* buffer.node, buffer.account, buffer.storage: the buffered value of key k,
\* or Absent.  A destructed account and its slots are found empty.
bufferGet(b, k) ==
    CASE k = "node" -> b.node
      [] k = "acct" -> IF b.acct # Absent THEN b.acct
                       ELSE IF b.destruct THEN 0 ELSE Absent
      [] k = "slot" -> IF b.slot # Absent THEN b.slot
                       ELSE IF b.destruct THEN 0 ELSE Absent

\* The clean cache's answer: the node cache answers with non-empty blobs
\* only, the state cache with whatever it holds.
cacheGet(c, k) ==
    IF k = "node" THEN (IF c.node = 0 THEN Absent ELSE c.node) ELSE c[k]

\* The disk layer's read as it would be without the stale check.
diskReadUnchecked(s, i, k) ==
    IF bufferGet(s.buffer, k) # Absent THEN Value(bufferGet(s.buffer, k))
    ELSE IF cacheGet(s.cache, k) # Absent THEN Value(cacheGet(s.cache, k))
    ELSE Value(s.kv[k])

\* diskLayer.node, diskLayer.account, diskLayer.storage.
diskRead(s, i, k) ==
    IF s.disks[i].stale THEN errSnapshotStale
    ELSE IF bufferGet(s.buffer, k) # Absent THEN Value(bufferGet(s.buffer, k))
    ELSE IF cacheGet(s.cache, k) # Absent THEN Value(cacheGet(s.cache, k))
    ELSE Value(s.kv[k])

\* The clean caches after the read: a miss of buffer and cache stores what
\* the disk gave (the node cache only a non-empty blob).
diskReadCache(s, i, k) ==
    IF \/ s.disks[i].stale
       \/ bufferGet(s.buffer, k) # Absent
       \/ cacheGet(s.cache, k) # Absent
       \/ (k = "node" /\ s.kv.node = 0)
    THEN s.cache
    ELSE [s.cache EXCEPT ![k] = s.kv[k]]

\* The diff layer's own answer for key k, or Absent.
diffGet(d, k) ==
    CASE k = "node" -> d.node
      [] k = "acct" -> IF d.acct # Absent THEN d.acct
                       ELSE IF d.destruct THEN 0 ELSE Absent
      [] k = "slot" -> IF d.slot # Absent THEN d.slot
                       ELSE IF d.destruct THEN 0 ELSE Absent

\* The disk layer a read through ref ends at, or 0 when a diff layer on the
\* way answers or is stale.
RECURSIVE readEnd(_, _, _)
readEnd(s, ref, k) ==
    IF IsDisk(ref) THEN ref[2]
    ELSE LET d == s.diffs[ref[2]]
         IN IF d.stale \/ diffGet(d, k) # Absent THEN 0
            ELSE readEnd(s, d.parent, k)

\* diffLayer.node, diffLayer.account, diffLayer.storage: the layer's own
\* entry, else the parent's answer.
RECURSIVE read(_, _, _)
read(s, ref, k) ==
    IF IsDisk(ref) THEN diskRead(s, ref[2], k)
    ELSE LET d == s.diffs[ref[2]]
         IN IF d.stale THEN errSnapshotStale
            ELSE IF diffGet(d, k) # Absent THEN Value(diffGet(d, k))
            ELSE read(s, d.parent, k)

\* A read of key k through the layer tree.get(root) gives.
Read ==
    /\ ~fatal
    /\ UNCHANGED <<fl, rd, wr, boots>>
    /\ \E root \in DOMAIN layers, k \in Keys :
          LET i == readEnd(Cur, layers[root], k)
          IN /\ i # 0
             /\ Install([Cur EXCEPT !.cache = diskReadCache(Cur, i, k)])

----------------------------------------------------------------------------
(* layerTree.cap *)

\* Largest number of layers a cap keeps.
MaxKeep == 2

\* The dive as it would be with the loop running once less: n - 1 hops.
RECURSIVE DiveShort(_, _, _)
DiveShort(dfs, r, n) ==
    IF n <= 1 THEN r
    ELSE IF IsDiff(dfs[r].parent) THEN DiveShort(dfs, dfs[r].parent[2], n - 1)
    ELSE 0

\* The dive as it would be with the loop running once more: n + 1 hops.
RECURSIVE DiveBelow(_, _, _)
DiveBelow(dfs, r, n) ==
    IF ~IsDiff(dfs[r].parent) THEN 0
    ELSE IF n = 0 THEN dfs[r].parent[2]
    ELSE DiveBelow(dfs, dfs[r].parent[2], n - 1)

\* The diff layer n parent hops below r, or 0 when a disk layer comes first.
RECURSIVE Dive(_, _, _)
Dive(dfs, r, n) ==
    IF n = 0 THEN r
    ELSE IF IsDiff(dfs[r].parent) THEN Dive(dfs, dfs[r].parent[2], n - 1)
    ELSE 0

\* The roots cap's remove visits from root: root and, transitively, the diff
\* layers of lys whose parent has a visited root.
RECURSIVE Removed(_, _, _, _)
Removed(dfs, dks, lys, seen) ==
    LET more == {x \in DOMAIN lys \ seen :
                    /\ IsDiff(lys[x])
                    /\ rootHash(dfs, dks, dfs[x].parent) \in seen}
    IN IF more = {} THEN seen ELSE Removed(dfs, dks, lys, seen \cup more)

\* removeLayer for every diff layer of rs.
RECURSIVE RemoveLookups(_, _, _)
RemoveLookups(lk, dfs, rs) ==
    IF rs = {} THEN lk
    ELSE LET x == CHOOSE x \in rs : TRUE
         IN RemoveLookups(removeLayer(lk, dfs[x], x), dfs, rs \ {x})

\* The call panics: the process is gone, the stores keep what was written.
Panicked(s, w) ==
    [s EXCEPT !.fatal = TRUE, !.kv = w.kv, !.freezer = w.freezer,
              !.err = w.err]

capFull(root, w) ==
    [w EXCEPT !.base = w.res,
              !.layers = (root :> DiskRef(w.res)),
              !.descendants = EmptyMap,
              !.lookup = EmptyLookup]

\* diff keeps its place, its parent (the layer stale) was persisted into the
\* disk layer w.res.
capPartial(diff, stale, w) ==
    LET dfs == [w.diffs EXCEPT ![diff].parent = DiskRef(w.res)]
        lys == Put(w.layers, stale, DiskRef(w.res))
        gone == Removed(dfs, w.disks, lys, {w.disks[w.base].root})
        gonediffs == {x \in gone : x \in DOMAIN lys /\ IsDiff(lys[x])}
    IN [w EXCEPT
          !.diffs = dfs,
          !.base = w.res,
          !.layers = Drop(lys, gone),
          !.descendants = Drop(w.descendants, gone),
          !.lookup = removeLayer(RemoveLookups(w.lookup, dfs, gonediffs),
                                 dfs[stale], stale)]

\* cap as it would be with the tree replaced by the layer of root before
\* the layer's type is looked at.
capReplaceFirst(s, root, keep, failRoot) ==
    IF root \notin DOMAIN s.layers
    THEN [s EXCEPT !.err = "layer missing"]
    ELSE IF IsDisk(s.layers[root])
    THEN [s EXCEPT !.err = "layer is disk layer",
                   !.layers = (root :> s.layers[root]),
                   !.descendants = EmptyMap,
                   !.lookup = EmptyLookup]
    ELSE IF keep = 0
    THEN LET w == persist(s, root, TRUE, failRoot)
         IN IF w.fatal THEN Panicked(s, w)
            ELSE IF w.err # "" THEN w
            ELSE capFull(root, w)
    ELSE LET diff == Dive(s.diffs, root, keep - 1)
         IN IF diff = 0 \/ IsDisk(s.diffs[diff].parent)
            THEN s
            ELSE LET stale == s.diffs[diff].parent[2]
                     w == persist(s, stale, FALSE, failRoot)
                 IN IF w.fatal THEN Panicked(s, w)
                    ELSE IF w.err # "" THEN w
                    ELSE capPartial(diff, stale, w)

cap(s, root, keep, failRoot) ==
    IF root \notin DOMAIN s.layers
    THEN [s EXCEPT !.err = "layer missing"]
    ELSE IF IsDisk(s.layers[root])
    THEN [s EXCEPT !.err = "layer is disk layer"]
    ELSE IF keep = 0
    THEN LET w == persist(s, root, TRUE, failRoot)
         IN IF w.fatal THEN Panicked(s, w)
            ELSE IF w.err # "" THEN w
            ELSE capFull(root, w)
    ELSE LET diff == Dive(s.diffs, root, keep - 1)
         IN IF diff = 0 \/ IsDisk(s.diffs[diff].parent)
            THEN s
            ELSE LET stale == s.diffs[diff].parent[2]
                     w == persist(s, stale, FALSE, failRoot)
                 IN IF w.fatal THEN Panicked(s, w)
                    ELSE IF w.err # "" THEN w
                    ELSE capPartial(diff, stale, w)

\* The layers a cap of root may persist: root and the diff layers below it.
Persistable(s, root) ==
    IF root \in DOMAIN s.layers /\ IsDiff(s.layers[root])
    THEN {root} \cup {ref[2] : ref \in {x \in ancestorRefs(s.diffs, s.disks,
                                                          s.layers[root]) :
                                       IsDiff(x)}}
    ELSE {}

Cap ==
    /\ ~fatal
    /\ UNCHANGED <<fl, rd, wr, boots>>
    /\ \E root \in Roots, keep \in 0 .. MaxKeep :
          \E failRoot \in {0} \cup Persistable(Cur, root) :
              Install(cap(Cur, root, keep, failRoot))

----------------------------------------------------------------------------
(* diskLayer.revert and Database.Recover *)

readHistory(fr, id) ==
    IF fr.tail < id /\ id <= historyHead(fr)
    THEN [err |-> FALSE, h |-> fr.hist[id - fr.tail]]
    ELSE [err |-> TRUE, h |-> historyOf(0, 0, [id |-> 0, onode |-> Absent,
                                              oacct |-> Absent, oslot |-> Absent])]

\* truncateFromHead as it would be with the history above the new head
\* left in the log.
truncateFromHeadShort(fr, nhead) ==
    IF nhead + 1 >= historyHead(fr) THEN fr
    ELSE IF nhead + 1 <= fr.tail THEN [fr EXCEPT !.hist = <<>>]
    ELSE [fr EXCEPT !.hist = SubSeq(@, 1, nhead + 1 - fr.tail)]

\* truncateFromHead: the histories above nhead are removed.
truncateFromHead(fr, nhead) ==
    IF nhead >= historyHead(fr) THEN fr
    ELSE IF nhead <= fr.tail THEN [fr EXCEPT !.hist = <<>>]
    ELSE [fr EXCEPT !.hist = SubSeq(@, 1, nhead - fr.tail)]

\* The original values of a history as a set of writes: the keys the
\* transition touched, with what they held before.
reverseOf(h) ==
    [layers |-> 0, node |-> h.onode, destruct |-> FALSE, acct |-> h.oacct,
     slot |-> h.oslot]

\* nodeSet.revert and stateSet.revert: the buffered entries of the keys the
\* transition touched take the original values.
revertSets(b, h) ==
    [b EXCEPT
        !.node = IF h.onode # Absent THEN h.onode ELSE @,
        !.acct = IF h.oacct # Absent THEN h.oacct ELSE @,
        !.slot = IF h.oslot # Absent THEN h.oslot ELSE @]

\* buffer.revert as it would be without the reset of the buffer that loses
\* its last transition.
bufferRevertNoReset(b, h) ==
    IF b.layers = 0 THEN [err |-> "state unrecoverable", buffer |-> b]
    ELSE [err |-> "", buffer |-> [revertSets(b, h) EXCEPT !.layers = @ - 1]]

\* buffer.revert: fails on a buffer without a transition; the last
\* transition leaves the buffer, which is reset when it was the only one
\* and takes the original values otherwise.
bufferRevert(b, h) ==
    IF b.layers = 0 THEN [err |-> "state unrecoverable", buffer |-> b]
    ELSE IF b.layers - 1 = 0 THEN [err |-> "", buffer |-> EmptyBuffer]
    ELSE [err |-> "", buffer |-> [revertSets(b, h) EXCEPT !.layers = @ - 1]]

\* revert as it would be with the layer marked stale before the history is
\* looked at.
revertMarkFirst(s, i, h) ==
    LET dl == s.disks[i]
        s1 == [s EXCEPT !.disks[i].stale = TRUE]
    IN IF dl.stale
       THEN [s EXCEPT !.fatal = TRUE, !.err = "triedb disk layer is stale"]
       ELSE IF h.root # dl.root THEN [s1 EXCEPT !.err = "unexpected history"]
       ELSE IF dl.id = 0 THEN [s1 EXCEPT !.err = "state unrecoverable"]
       ELSE IF ~bufferEmpty(s.buffer)
       THEN newDiskLayer(
                [s1 EXCEPT !.buffer = bufferRevert(s.buffer, h).buffer],
                h.parent, dl.id - 1)
       ELSE newDiskLayer(
                [s1 EXCEPT
                    !.cache = writeCache(s.cache, reverseOf(h)),
                    !.kv = [writeBuffer(s.kv, reverseOf(h)) EXCEPT
                               !.sid = dl.id - 1, !.srt = h.parent]],
                h.parent, dl.id - 1)

\* revert as it would be with the flushed transition's nodes written back
\* and its accounts and slots left as they are.
revertNodesOnly(s, i, h) ==
    LET dl == s.disks[i]
        nodes == [reverseOf(h) EXCEPT !.acct = Absent, !.slot = Absent]
    IN IF h.root # dl.root THEN [s EXCEPT !.err = "unexpected history"]
       ELSE IF dl.id = 0 THEN [s EXCEPT !.err = "state unrecoverable"]
       ELSE IF dl.stale
       THEN [s EXCEPT !.fatal = TRUE, !.err = "triedb disk layer is stale"]
       ELSE LET s1 == [s EXCEPT !.disks[i].stale = TRUE]
            IN IF ~bufferEmpty(s.buffer)
               THEN newDiskLayer(
                        [s1 EXCEPT !.buffer = bufferRevert(s.buffer, h).buffer],
                        h.parent, dl.id - 1)
               ELSE newDiskLayer(
                        [s1 EXCEPT
                            !.cache = writeCache(s.cache, nodes),
                            !.kv = [writeBuffer(s.kv, nodes) EXCEPT
                                       !.sid = dl.id - 1, !.srt = h.parent]],
                        h.parent, dl.id - 1)

\* revert as it would be with the store written whether or not the buffer
\* holds the transition.
revertThrough(s, i, h) ==
    LET dl == s.disks[i]
    IN IF h.root # dl.root THEN [s EXCEPT !.err = "unexpected history"]
       ELSE IF dl.id = 0 THEN [s EXCEPT !.err = "state unrecoverable"]
       ELSE IF dl.stale
       THEN [s EXCEPT !.fatal = TRUE, !.err = "triedb disk layer is stale"]
       ELSE newDiskLayer(
                [s EXCEPT
                    !.disks[i].stale = TRUE,
                    !.buffer = IF bufferEmpty(s.buffer) THEN s.buffer
                               ELSE bufferRevert(s.buffer, h).buffer,
                    !.cache = writeCache(s.cache, reverseOf(h)),
                    !.kv = [writeBuffer(s.kv, reverseOf(h)) EXCEPT
                               !.sid = dl.id - 1, !.srt = h.parent]],
                h.parent, dl.id - 1)

revert(s, i, h) ==
    LET dl == s.disks[i]
    IN IF h.root # dl.root THEN [s EXCEPT !.err = "unexpected history"]
       ELSE IF dl.id = 0 THEN [s EXCEPT !.err = "state unrecoverable"]
       ELSE IF dl.stale
       THEN [s EXCEPT !.fatal = TRUE, !.err = "triedb disk layer is stale"]
       ELSE LET s1 == [s EXCEPT !.disks[i].stale = TRUE]
            IN IF ~bufferEmpty(s.buffer)
               THEN newDiskLayer(
                        [s1 EXCEPT !.buffer = bufferRevert(s.buffer, h).buffer],
                        h.parent, dl.id - 1)
               ELSE newDiskLayer(
                        [s1 EXCEPT
                            !.cache = writeCache(s.cache, reverseOf(h)),
                            !.kv = [writeBuffer(s.kv, reverseOf(h)) EXCEPT
                                       !.sid = dl.id - 1, !.srt = h.parent]],
                        h.parent, dl.id - 1)

\* layerTree.reset on a disk layer.
reset(s, i) ==
    [s EXCEPT !.base = i,
              !.layers = (s.disks[i].root :> DiskRef(i)),
              !.descendants = EmptyMap,
              !.lookup = EmptyLookup]

\* Database.Recoverable: the state is below the disk layer and the histories
\* in between are there and lead to it.
Recoverable(s, root) ==
    /\ root \in DOMAIN s.kv.rid
    /\ LET id == s.kv.rid[root]
           top == s.disks[s.base].id
       IN /\ id < top
          /\ s.freezer.tail <= id
          /\ top <= historyHead(s.freezer)
          /\ readHistory(s.freezer, id + 1).h.parent = root
          /\ \A j \in id + 1 .. top - 1 :
                readHistory(s.freezer, j).h.root
                    = readHistory(s.freezer, j + 1).h.parent

\* The loop of Database.Recover: one revert and one reset of the tree per
\* state history, down to the state root.
RECURSIVE recoverLoop(_, _)
recoverLoop(s, root) ==
    LET dl == s.disks[s.base]
        rh == readHistory(s.freezer, dl.id)
    IN IF dl.root = root THEN s
       ELSE IF rh.err THEN [s EXCEPT !.err = "state history not found"]
       ELSE LET r == revert(s, s.base, rh.h)
            IN IF r.err # "" THEN r
               ELSE recoverLoop(reset(r, r.res), root)

recover(s, root) ==
    IF ~freezerOn THEN [s EXCEPT !.err = "state rollback is non-supported"]
    ELSE IF ~Recoverable(s, root) THEN [s EXCEPT !.err = "state unrecoverable"]
    ELSE LET r == recoverLoop(s, root)
         IN IF r.fatal
            THEN [s EXCEPT !.fatal = TRUE, !.kv = r.kv,
                           !.freezer = r.freezer, !.err = r.err]
            ELSE IF r.err # "" THEN r
            ELSE [r EXCEPT !.freezer =
                      truncateFromHead(r.freezer, r.disks[r.base].id)]

Recover ==
    /\ ~fatal
    /\ UNCHANGED <<fl, rd, wr, boots>>
    /\ \E root \in Roots : Install(recover(Cur, root))

Next == Add \/ Cap \/ Read \/ Recover

Spec == Init /\ [][Next]_vars

----------------------------------------------------------------------------
(* buffer.flush, statement by statement, with crashes *)

\* The buffers a flush may find: one or two layers, any content.  A
\* destructed account comes with its account record.
FlushBuffers ==
    {b \in [layers : 1 .. 2, node : {Absent, 0, 2}, destruct : BOOLEAN,
            acct : {Absent, 0, 2}, slot : {Absent, 0, 2}] :
        b.destruct => b.acct # Absent}

\* Largest state id a flush is called with.
MaxFlushID == 3

\* What the statements of flush work on: the store, the batch, the caches.
FlushState == [kv |-> kv, batch |-> fl.batch, cache |-> cache]

\* nodes.write: the nodes go to the batch and to the clean cache.
flushNodes(st, b) ==
    [st EXCEPT !.batch.node = b.node,
               !.cache = writeCache(st.cache, [b EXCEPT !.destruct = FALSE,
                                                        !.acct = Absent,
                                                        !.slot = Absent])]

\* A states.write that puts the state records into the store at once, not
\* into the batch.
flushStatesUnbatched(st, b) ==
    [st EXCEPT !.kv = writeBuffer(st.kv, [b EXCEPT !.node = Absent]),
               !.cache = writeCache(st.cache, [b EXCEPT !.node = Absent])]

\* states.write: the state records go to the batch and to the clean cache.
flushStates(st, b) ==
    [st EXCEPT !.batch.destruct = b.destruct,
               !.batch.acct = b.acct,
               !.batch.slot = b.slot,
               !.cache = writeCache(st.cache, [b EXCEPT !.node = Absent])]

WritePersistentStateID(st, id) == [st EXCEPT !.batch.sid = id]

WriteSnapshotRoot(st, root) == [st EXCEPT !.batch.srt = root]

\* batch.Write: the store takes all the records of the batch at once.
batchWrite(st) ==
    [st EXCEPT !.kv = [writeBuffer(st.kv, st.batch) EXCEPT
                          !.sid = IF st.batch.sid # Absent THEN st.batch.sid
                                  ELSE @,
                          !.srt = IF st.batch.srt # Absent THEN st.batch.srt
                                  ELSE @]]

FlushInstall(st, pc) ==
    /\ kv' = st.kv
    /\ cache' = st.cache
    /\ fl' = [fl EXCEPT !.pc = pc, !.batch = st.batch]
    /\ UNCHANGED <<diffs, disks, base, layers, descendants, lookup, buffer,
                   freezer, freezerOn, gt, numRoots, fatal, rd, wr, it,
                   boots>>

InitFlush ==
    /\ diffs = EmptyMap
    /\ disks = <<[root |-> 1, id |-> 0, stale |-> TRUE]>>
    /\ base = 1
    /\ layers = (1 :> DiskRef(1))
    /\ descendants = EmptyMap
    /\ lookup = EmptyLookup
    /\ buffer \in FlushBuffers
    /\ cache = EmptyCache
    /\ \E sid \in 0 .. 1 :
          kv = [node |-> InitialState.node, acct |-> InitialState.acct,
                slot |-> InitialState.slot, sid |-> sid, srt |-> 1,
                rid |-> EmptyMap]
    /\ freezerOn = FALSE
    /\ freezer = [tail |-> 0, hist |-> <<>>]
    /\ gt = (1 :> InitialState)
    /\ numRoots = 1
    /\ fatal = FALSE
    /\ \E id \in 1 .. MaxFlushID :
          fl = [pc |-> "check", batch |-> NoBatch, root |-> 2, id |-> id,
                pre |-> kv, buf |-> buffer]
    /\ rd = NoReader
    /\ wr = NoWriter
    /\ it = NoIter
    /\ boots = 1

FlushCheck ==
    /\ fl.pc = "check"
    /\ FlushInstall(FlushState,
                    IF kv.sid + buffer.layers # fl.id THEN "failed" ELSE "nodes")

FlushNodes ==
    /\ fl.pc = "nodes"
    /\ FlushInstall(flushNodes(FlushState, buffer), "states")

FlushStates ==
    /\ fl.pc = "states"
    /\ FlushInstall(flushStates(FlushState, buffer), "id")

FlushID ==
    /\ fl.pc = "id"
    /\ FlushInstall(WritePersistentStateID(FlushState, fl.id), "root")

FlushRoot ==
    /\ fl.pc = "root"
    /\ FlushInstall(WriteSnapshotRoot(FlushState, fl.root), "write")

\* The batch write as it would be with the buffer reset whether the write
\* succeeded or not.
FlushWriteResetAlways ==
    /\ fl.pc = "write"
    /\ \/ FlushInstall(batchWrite(FlushState), "reset")
       \/ /\ fl' = [fl EXCEPT !.pc = "failed"]
          /\ buffer' = EmptyBuffer
          /\ UNCHANGED <<diffs, disks, base, layers, descendants, lookup,
                         cache, kv, freezer, freezerOn, gt, numRoots, fatal,
                         rd, wr, it,
                   boots>>

FlushWrite ==
    /\ fl.pc = "write"
    /\ \/ FlushInstall(batchWrite(FlushState), "reset")
       \/ FlushInstall(FlushState, "failed")

FlushReset ==
    /\ fl.pc = "reset"
    /\ buffer' = EmptyBuffer
    /\ fl' = [fl EXCEPT !.pc = "done"]
    /\ UNCHANGED <<diffs, disks, base, layers, descendants, lookup, cache, kv,
                   freezer, freezerOn, gt, numRoots, fatal, rd, wr, it,
                   boots>>

\* The process dies: the memory is gone, the store keeps what it has.
FlushCrash ==
    /\ fl.pc \in {"check", "nodes", "states", "id", "root", "write", "reset"}
    /\ fl' = [fl EXCEPT !.pc = "crashed:" \o fl.pc, !.batch = NoBatch]
    /\ buffer' = EmptyBuffer
    /\ cache' = EmptyCache
    /\ UNCHANGED <<diffs, disks, base, layers, descendants, lookup, kv,
                   freezer, freezerOn, gt, numRoots, fatal, rd, wr, it,
                   boots>>

NextFlush ==
    \/ FlushCheck
    \/ FlushNodes
    \/ FlushStates
    \/ FlushID
    \/ FlushRoot
    \/ FlushWrite
    \/ FlushReset
    \/ FlushCrash

SpecFlush == InitFlush /\ [][NextFlush]_vars

----------------------------------------------------------------------------
(* Reads interleaved with flatten and commit *)

\* Number of state roots of the interleavings.
IsoMaxRoot == 3

\* The methods a thread reads a node with: diffLayer.node takes no lock,
\* diffLayer.nodeBlob holds the read lock of every diff layer it visits.
Methods == {"node", "nodeBlob"}

IsoAdd ==
    /\ numRoots < IsoMaxRoot
    /\ wr.pc = "idle"
    /\ Add

\* tree.get hands the layer of root to the thread, which will read the node.
RdStart(root, method) ==
    /\ ~fatal
    /\ rd.pc = "idle"
    /\ wr.pc # "commit"
    /\ root \in DOMAIN layers
    /\ rd' = [NoReader EXCEPT !.pc = "check", !.root = root,
                              !.handle = layers[root], !.at = layers[root],
                              !.method = method]
    /\ UNCHANGED <<diffs, disks, base, layers, descendants, lookup, buffer,
                   cache, kv, freezer, freezerOn, gt, numRoots, fatal, fl, wr, it,
                   boots>>

RdReturn(res) == [rd EXCEPT !.pc = "done", !.locks = {}, !.res = res]

\* The thread that flattens holds the lock of the diff layer ref.
WriteLocked(ref) ==
    /\ wr.pc \in {"locked", "marked", "merging", "merged"}
    /\ ref = DiffRef(wr.parent)

\* The stale check of the layer the read is at; nodeBlob and the disk layer
\* take the layer's read lock first.
RdCheck ==
    /\ ~fatal
    /\ rd.pc = "check"
    /\ IF IsDiff(rd.at)
       THEN /\ rd.method = "nodeBlob" => ~WriteLocked(rd.at)
            /\ rd' = IF diffs[rd.at[2]].stale THEN RdReturn(errSnapshotStale)
                     ELSE [rd EXCEPT !.pc = "local",
                                     !.locks = IF rd.method = "nodeBlob"
                                               THEN @ \cup {rd.at} ELSE @]
       ELSE rd' = IF disks[rd.at[2]].stale THEN RdReturn(errSnapshotStale)
                  ELSE [rd EXCEPT !.pc = "disk", !.locks = @ \cup {rd.at}]
    /\ UNCHANGED <<diffs, disks, base, layers, descendants, lookup, buffer,
                   cache, kv, freezer, freezerOn, gt, numRoots, fatal, fl, wr, it,
                   boots>>

\* The diff layer's answer when its map gives the entry n to a read that
\* asks for the node of the thread's state: the entry when it is that node,
\* the parent's answer otherwise.
RdEntry(n) ==
    IF n # Absent /\ n = gt[rd.root].node THEN RdReturn(Value(n))
    ELSE [rd EXCEPT !.pc = "check", !.at = diffs[rd.at[2]].parent]

\* The read of the diff layer's map.  While flatten writes the map the
\* read is a data race: it sees the entry of before or the one of after, or
\* the runtime stops the process.
RdLocal ==
    /\ ~fatal
    /\ rd.pc = "local"
    /\ IF wr.pc = "merging" /\ rd.at = DiffRef(wr.parent)
       THEN \/ rd' = RdEntry(diffs[rd.at[2]].node) /\ UNCHANGED fatal
            \/ rd' = RdEntry(diffs[wr.dl].node) /\ UNCHANGED fatal
            \/ rd' = [rd EXCEPT !.pc = "crashed"] /\ fatal' = TRUE
       ELSE rd' = RdEntry(diffs[rd.at[2]].node) /\ UNCHANGED fatal
    /\ UNCHANGED <<diffs, disks, base, layers, descendants, lookup, buffer,
                   cache, kv, freezer, freezerOn, gt, numRoots, fl, wr, it,
                   boots>>

\* The disk layer's read, under its read lock.
RdDisk ==
    /\ ~fatal
    /\ rd.pc = "disk"
    /\ rd' = RdReturn(diskRead(Cur, rd.at[2], "node"))
    /\ cache' = diskReadCache(Cur, rd.at[2], "node")
    /\ UNCHANGED <<diffs, disks, base, layers, descendants, lookup, buffer,
                   kv, freezer, freezerOn, gt, numRoots, fatal, fl, wr, it,
                   boots>>

\* flatten of the diff layer dl into its parent, the lowest diff layer: the
\* parent's lock is taken.
FlStart(dl) ==
    /\ ~fatal
    /\ wr.pc = "idle"
    /\ wr.mode \in {"", "flatten"}
    /\ dl \in DOMAIN diffs
    /\ IsDiff(diffs[dl].parent)
    /\ IsDisk(diffs[diffs[dl].parent[2]].parent)
    /\ diffs[dl].parent \notin rd.locks
    /\ wr' = [NoWriter EXCEPT !.pc = "locked", !.mode = "flatten", !.dl = dl,
                              !.parent = diffs[dl].parent[2]]
    /\ UNCHANGED <<diffs, disks, base, layers, descendants, lookup, buffer,
                   cache, kv, freezer, freezerOn, gt, numRoots, fatal, fl, rd, it,
                   boots>>

\* The swap of the parent's stale flag; a parent flattened into before makes
\* flatten panic.
FlMark ==
    /\ ~fatal
    /\ wr.pc = "locked"
    /\ IF diffs[wr.parent].stale
       THEN /\ fatal' = TRUE
            /\ UNCHANGED <<diffs, wr>>
       ELSE /\ diffs' = [diffs EXCEPT ![wr.parent].stale = TRUE]
            /\ wr' = [wr EXCEPT !.pc = "marked"]
            /\ UNCHANGED fatal
    /\ UNCHANGED <<disks, base, layers, descendants, lookup, buffer, cache, kv,
                   freezer, freezerOn, gt, numRoots, fl, rd, it,
                   boots>>

\* The merge loop starts on the layer's node, if it has one.
FlMergeBegin ==
    /\ ~fatal
    /\ wr.pc = "marked"
    /\ wr' = [wr EXCEPT !.pc = IF diffs[wr.dl].node = Absent THEN "merged"
                               ELSE "merging"]
    /\ UNCHANGED <<diffs, disks, base, layers, descendants, lookup, buffer,
                   cache, kv, freezer, freezerOn, gt, numRoots, fatal, fl, rd, it,
                   boots>>

\* parent.nodes[key] = n, in the parent's own map.
FlMergeEnd ==
    /\ ~fatal
    /\ wr.pc = "merging"
    /\ diffs' = [diffs EXCEPT ![wr.parent].node = diffs[wr.dl].node]
    /\ wr' = [wr EXCEPT !.pc = "merged"]
    /\ UNCHANGED <<disks, base, layers, descendants, lookup, buffer, cache, kv,
                   freezer, freezerOn, gt, numRoots, fatal, fl, rd, it,
                   boots>>

\* flatten returns the combined layer and releases the parent's lock.
FlReturn ==
    /\ ~fatal
    /\ wr.pc = "merged"
    /\ wr' = [NoWriter EXCEPT !.mode = "flatten"]
    /\ UNCHANGED <<diffs, disks, base, layers, descendants, lookup, buffer,
                   cache, kv, freezer, freezerOn, gt, numRoots, fatal, fl, rd, it,
                   boots>>

\* The disk layer at the end of the parent path of the diff layer root.
bottomDisk(s, root) ==
    LET path == ParentPath(s.diffs, s.disks, DiffRef(root))
    IN path[Len(path)][2]

\* markStale as it would be without the disk layer's lock.
markStaleUnlocked(i) == TRUE

\* dl.lock.Lock of markStale succeeds: no read holds the disk layer's lock.
markStaleLock(i) == DiskRef(i) \notin rd.locks

\* cap as far as the first markStale of a commit, which waits for the disk
\* layer's lock.
CmStart(root, keep, failRoot) ==
    /\ ~fatal
    /\ wr.pc = "idle"
    /\ wr.mode \in {"", "cap"}
    /\ root \in DOMAIN layers
    /\ IsDiff(layers[root])
    /\ LET i == bottomDisk(Cur, root)
       IN /\ ~disks[i].stale
          /\ cap(Cur, root, keep, failRoot).disks[i].stale
          /\ markStaleLock(i)
          /\ disks' = [disks EXCEPT ![i].stale = TRUE]
          /\ wr' = [NoWriter EXCEPT !.pc = "commit", !.mode = "cap",
                                    !.dl = root, !.keep = keep,
                                    !.failRoot = failRoot, !.disk = i]
    /\ UNCHANGED <<diffs, base, layers, descendants, lookup, buffer, cache, kv,
                   freezer, freezerOn, gt, numRoots, fatal, fl, rd, it,
                   boots>>

\* The rest of the cap.
CmFinish ==
    /\ ~fatal
    /\ wr.pc = "commit"
    /\ Install(cap([Cur EXCEPT !.disks[wr.disk].stale = FALSE],
                   wr.dl, wr.keep, wr.failRoot))
    /\ wr' = [NoWriter EXCEPT !.mode = "cap"]
    /\ UNCHANGED <<fl, rd, boots>>

NextIso ==
    \/ IsoAdd
    \/ \E root \in Roots, method \in Methods : RdStart(root, method)
    \/ RdCheck
    \/ RdLocal
    \/ RdDisk
    \/ \E dl \in Roots : FlStart(dl)
    \/ FlMark
    \/ FlMergeBegin
    \/ FlMergeEnd
    \/ FlReturn
    \/ \E root \in Roots, keep \in 0 .. MaxKeep :
          \E failRoot \in {0} \cup Persistable(Cur, root) :
              CmStart(root, keep, failRoot)
    \/ CmFinish

SpecIso == Init /\ [][NextIso]_vars

----------------------------------------------------------------------------
(* The layer tree's queries *)

get(s, root) == IF root \in DOMAIN s.layers THEN s.layers[root] ELSE NoRef

\* lookupNode, lookupAccount, lookupStorage: the layer of the tip, the base
\* for the zero hash.
tipOf(s, k, head) ==
    CASE k = "node" -> nodeTip(s.lookup, s.descendants, head)
      [] k = "acct" -> accountTip(s.lookup, s.descendants, head)
      [] k = "slot" -> storageTip(s.lookup, s.descendants, head)

lookupLayer(s, k, head) ==
    LET tip == tipOf(s, k, head)
    IN IF tip = ZeroHash THEN DiskRef(s.base) ELSE get(s, tip)

\* The walk of the parent chain of ref to the first diff layer that modified
\* key k, or to the disk layer.
RECURSIVE walk(_, _, _)
walk(s, ref, k) ==
    IF IsDisk(ref) THEN ref
    ELSE IF diffGet(s.diffs[ref[2]], k) # Absent THEN ref
    ELSE walk(s, s.diffs[ref[2]].parent, k)

isStale(s, ref) ==
    IF IsDiff(ref) THEN s.diffs[ref[2]].stale ELSE s.disks[ref[2]].stale

\* The number of diff layers on the parent path of ref, ref included.
depth(s, ref) ==
    IF IsDisk(ref) THEN 0
    ELSE 1 + Cardinality({i \in 1 .. Len(ParentPath(s.diffs, s.disks, ref)) :
                             IsDiff(ParentPath(s.diffs, s.disks, ref)[i])})

----------------------------------------------------------------------------
(* Properties *)

\* C1: a read of any key through any layer tree.get returns gives the value
\* of the most recent write on the layer's parent path, the empty value when
\* that was a deletion.
C1_ReadConsistency ==
    ~fatal =>
        \A root \in DOMAIN layers, k \in Keys :
            read(Cur, layers[root], k) = Value(gt[root][k])

\* C2: for every head of the tree and every key, the lookup returns the
\* layer a walk of the head's parent chain stops at.
C2_LookupCorrect ==
    ~fatal =>
        \A head \in DOMAIN layers, k \in Keys :
            lookupLayer(Cur, k, head) = walk(Cur, layers[head], k)

\* C3: descendants[A] holds B exactly when B is a layer of the tree other
\* than A whose parent links reach a layer with root A.
C3_DescendantsClosure ==
    ~fatal =>
        \A a \in Roots, b \in Roots :
            isDescendant(descendants, b, a)
                <=> /\ b \in DOMAIN layers
                    /\ b # a
                    /\ a \in ancestors(diffs, disks, layers[b])

\* C7: no layer of the tree is stale, and the base is not.
C7_NoStaleHandedOut ==
    ~fatal =>
        /\ \A root \in DOMAIN layers : ~isStale(Cur, layers[root])
        /\ ~disks[base].stale

\* C8: a read of any key against a layer whose stale flag is set fails with
\* the stale error and gives no data, whatever the buffer, the clean caches
\* and the disk hold.  The disk layers are the stale ones of the state; for
\* the diff layers the flag is set on every layer in turn.
C8_StaleReadsFail ==
    /\ \A i \in 1 .. Len(disks), k \in Keys :
          disks[i].stale => diskRead(Cur, i, k) = errSnapshotStale
    /\ \A r \in DOMAIN diffs, k \in Keys :
          read([Cur EXCEPT !.diffs[r].stale = TRUE], DiffRef(r), k)
              = errSnapshotStale

\* A stale disk layer, with the key in the buffer, the account in the clean
\* cache and the slot on disk only.
C8_Witness ==
    /\ \E i \in 1 .. Len(disks) : disks[i].stale
    /\ buffer.node # Absent
    /\ cache.acct # Absent
    /\ buffer.slot = Absent /\ cache.slot = Absent /\ kv.slot # 0
    /\ diffs # EmptyMap

\* The roots an add may be called with: the used ones and the next one.
AddRoots == 1 .. Min(numRoots + 1, MaxRoot)

\* C9: an add whose root equals the parent root, or whose parent is not in
\* the tree, returns an error and leaves layers, descendants, lookup and
\* base as they were.
C9_RejectedAdd ==
    \A root \in AddRoots, parentRoot \in Roots, c \in Changes :
        (root = parentRoot \/ parentRoot \notin DOMAIN layers) =>
            LET r == add(Cur, root, parentRoot, c)
            IN /\ r.err # ""
               /\ r.layers = layers
               /\ r.descendants = descendants
               /\ r.lookup = lookup
               /\ r.base = base

\* A tree with a diff layer and an index, where both rejections happen: the
\* parent of the second one was capped away.
C9_Witness ==
    /\ Cardinality(DOMAIN layers) >= 2
    /\ lookup.accounts # <<>>
    /\ descendants # EmptyMap
    /\ \E root \in DOMAIN layers :
          add(Cur, root, root, NoChange).err = "layer cycle"
    /\ \E parentRoot \in 1 .. numRoots :
          /\ numRoots < MaxRoot
          /\ add(Cur, numRoots + 1, parentRoot, NoChange).err
                = "parent layer missing"

\* The root of the n-th layer on the parent path of the diff layer root
\* (the parent is the first).
ancestorRoot(s, root, n) ==
    rootHash(s.diffs, s.disks, ParentPath(s.diffs, s.disks, DiffRef(root))[n])

\* The roots of the layers below the n-th one on the parent path of root.
rootsBelow(s, root, n) ==
    LET path == ParentPath(s.diffs, s.disks, DiffRef(root))
    IN {rootHash(s.diffs, s.disks, path[i]) : i \in n + 1 .. Len(path)}

\* C10: after a cap(root, keep) with keep >= 1 that returns no error, at
\* most keep diff layers are on the parent path of root; when there were
\* more before, the disk layer has the root of the keep-th ancestor of root,
\* the layers below that one are out of the tree and root is still in it.
C10_CapBound ==
    ~fatal =>
      \A root \in DOMAIN layers, keep \in 1 .. MaxKeep :
        \A failRoot \in {0} \cup Persistable(Cur, root) :
          LET r == cap(Cur, root, keep, failRoot)
          IN (IsDiff(layers[root]) /\ r.err = "" /\ ~r.fatal) =>
                /\ depth(r, get(r, root)) <= keep
                /\ depth(Cur, layers[root]) > keep =>
                      /\ r.disks[r.base].root = ancestorRoot(Cur, root, keep)
                      /\ rootsBelow(Cur, root, keep) \cap DOMAIN r.layers = {}
                      /\ get(r, root) = DiffRef(root)

\* A cap that keeps one layer of a path of three, with a sibling aside.
C10_Witness ==
    \E root \in DOMAIN layers :
        /\ IsDiff(layers[root])
        /\ depth(Cur, layers[root]) = 3
        /\ Cardinality(DOMAIN layers) = 4
        /\ cap(Cur, root, 1, 0).err = ""
        /\ cap(Cur, root, 1, 0).base # base

\* The disk layer's state can be reverted: it is live, above state 0, and
\* the history of its transition is in the freezer.
Revertible ==
    /\ ~fatal
    /\ freezerOn
    /\ ~disks[base].stale
    /\ disks[base].id > 0
    /\ ~readHistory(freezer, disks[base].id).err
    /\ readHistory(freezer, disks[base].id).h.root = disks[base].root

\* C6: reverting the disk layer with the history of the transition that led
\* to it gives a disk layer with the parent's root, whose reads return for
\* every key what the parent state held; so when the transition is still in
\* the buffer and when it was flushed.
C6_RevertRoundTrip ==
    Revertible =>
        LET h == readHistory(freezer, disks[base].id).h
            r == revert(Cur, base, h)
        IN /\ r.err = ""
           /\ r.disks[r.res].root = h.parent
           /\ r.disks[r.res].id = disks[base].id - 1
           /\ \A k \in Keys : diskRead(r, r.res, k) = Value(gt[h.parent][k])

\* A revert of a transition held in the buffer with another one, after
\* which the account reads differently.
C6_Witness ==
    /\ Revertible
    /\ buffer.layers = 2
    /\ gt[disks[base].root].acct
          # gt[readHistory(freezer, disks[base].id).h.parent].acct

\* The store before the flush in progress and the store it is to give.
FlushPre == fl.pre
FlushPost == [writeBuffer(fl.pre, fl.buf) EXCEPT !.sid = fl.id, !.srt = fl.root]

\* The state the flush in progress started in.
FlushStart == [Cur EXCEPT !.kv = fl.pre, !.buffer = fl.buf, !.cache = EmptyCache]

\* C5: flush puts the nodes, the states, the persistent state id and the
\* snapshot root into one batch and writes it at once: at every point of the
\* flush, and after a crash at any point, the store is the one before the
\* flush or the one after it.  A flush that ran to its end did what the
\* one-step flush of the model does.
C5_FlushAtomic ==
    /\ kv = FlushPre \/ kv = FlushPost
    /\ fl.pc \in {"reset", "done", "crashed:reset"} => kv = FlushPost
    /\ fl.pc \in {"check", "nodes", "states", "id", "root", "write", "failed",
                  "crashed:check", "crashed:nodes", "crashed:states",
                  "crashed:id", "crashed:root", "crashed:write"}
          => kv = FlushPre
    /\ fl.pc = "write" =>
          /\ fl.batch.node = fl.buf.node
          /\ fl.batch.destruct = fl.buf.destruct
          /\ fl.batch.acct = fl.buf.acct
          /\ fl.batch.slot = fl.buf.slot
          /\ fl.batch.sid = fl.id
          /\ fl.batch.srt = fl.root
    /\ fl.pc = "done" =>
          LET a == flush(FlushStart, fl.root, fl.id, FALSE)
          IN a.err = "" /\ kv = a.kv /\ buffer = a.buffer /\ cache = a.cache
    /\ fl.pc = "failed" =>
          LET a == flush(FlushStart, fl.root, fl.id, kv.sid + fl.buf.layers = fl.id)
          IN a.err # "" /\ kv = a.kv /\ buffer = a.buffer /\ cache = a.cache

\* A crash right after the batch was written: the store holds the whole
\* flush, a destruct, a deletion and a write among it, and differs from the
\* one before.
C5_Witness ==
    /\ fl.pc = "crashed:reset"
    /\ kv = FlushPost
    /\ kv.acct # FlushPre.acct
    /\ kv.sid # FlushPre.sid
    /\ fl.buf.destruct /\ fl.buf.node = 0 /\ fl.buf.slot = 2

\* C4: a read through a handle tree.get gave, interleaved in any way with a
\* flatten or a commit, ends with the node of the handle's state or with the
\* stale error.
C4_Isolation ==
    rd.pc \in {"done", "crashed"} =>
        /\ rd.pc = "done"
        /\ \/ rd.res = errSnapshotStale
           \/ rd.res = Value(gt[rd.root].node)

----------------------------------------------------------------------------
(* Properties of cap, the buffer and the state history *)

\* The tree of r is the single disk layer of state root, flushed: nothing
\* else is in the tree, the index is empty, the buffer is empty and the
\* store's persistent state id is the layer's.
FullyFlushed(r, root) ==
    /\ DOMAIN r.layers = {root}
    /\ r.layers[root] = DiskRef(r.base)
    /\ r.disks[r.base].root = root
    /\ ~r.disks[r.base].stale
    /\ r.descendants = EmptyMap
    /\ r.lookup = EmptyLookup
    /\ r.buffer = EmptyBuffer
    /\ r.kv.sid = r.disks[r.base].id
    /\ r.kv.srt = root

\* C11: a cap(root, 0) on a diff layer of the tree, the store's writes
\* succeeding, returns no error and leaves the tree as the single disk layer
\* of root, with descendants, lookup and buffer empty and the persistent
\* state id that of the layer.
C11_FullFlush ==
    ~fatal =>
        \A root \in DOMAIN layers :
            IsDiff(layers[root]) =>
                LET r == cap(Cur, root, 0, 0)
                IN r.err = "" /\ ~r.fatal /\ FullyFlushed(r, root)

\* The same for the caps that return no error.
C11_FullFlushOnSuccess ==
    ~fatal =>
        \A root \in DOMAIN layers :
            IsDiff(layers[root]) =>
                LET r == cap(Cur, root, 0, 0)
                IN (r.err = "" /\ ~r.fatal) => FullyFlushed(r, root)

\* C12: a cap of a root that is not in the tree, or whose layer is the disk
\* layer, returns an error for every keep and changes nothing: the tree,
\* the index, the layers, the buffer, the history and the store stay.
C12_CapRejected ==
    \A root \in Roots, keep \in 0 .. MaxKeep :
        (root \notin DOMAIN layers \/ IsDisk(layers[root])) =>
            LET r == cap(Cur, root, keep, 0)
            IN /\ r.err # ""
               /\ [r EXCEPT !.err = ""] = Cur

\* A tree with diff layers, an index and a filled buffer, where both
\* rejections happen: a root that was capped away and the disk layer's root.
C12_Witness ==
    /\ ~fatal
    /\ Cardinality(DOMAIN layers) >= 3
    /\ lookup.nodes # <<>>
    /\ buffer.layers > 0
    /\ cap(Cur, disks[base].root, 0, 0).err = "layer is disk layer"
    /\ \E root \in 1 .. numRoots :
          cap(Cur, root, 1, 0).err = "layer missing"

\* C13: a cap(root, keep) with keep >= 1 and no more than keep diff layers
\* on the path of root returns no error and changes nothing.
C13_CapNoOp ==
    \A root \in DOMAIN layers, keep \in 1 .. MaxKeep :
        (IsDiff(layers[root]) /\ depth(Cur, layers[root]) <= keep) =>
            \A failRoot \in {0} \cup Persistable(Cur, root) :
                cap(Cur, root, keep, failRoot) = Cur

\* A path of exactly two diff layers capped with keep = 2, the buffer
\* filled; a path of one layer capped with keep = 1.
C13_Witness ==
    /\ ~fatal
    /\ buffer.layers > 0
    /\ \E root \in DOMAIN layers :
          /\ IsDiff(layers[root])
          /\ depth(Cur, layers[root]) = 2
          /\ cap(Cur, root, 2, 0) = Cur
    /\ \E root \in DOMAIN layers :
          /\ IsDiff(layers[root])
          /\ depth(Cur, layers[root]) = 1
          /\ cap(Cur, root, 1, 0) = Cur

\* C14: the tree holds exactly one disk layer, which is the base, and every
\* diff layer of the tree reaches the base by its parent links.
C14_TreeShape ==
    ~fatal =>
        /\ {r \in DOMAIN layers : IsDisk(layers[r])} = {disks[base].root}
        /\ layers[disks[base].root] = DiskRef(base)
        /\ \A r \in DOMAIN layers :
              IsDiff(layers[r]) =>
                  DiskRef(base) \in ancestorRefs(diffs, disks, layers[r])

\* The layers from the diff layer head down to the disk layer, head first.
Chain(s, head) ==
    <<DiffRef(head)>> \o ParentPath(s.diffs, s.disks, DiffRef(head))

\* The first n layers of the chain ch are diff layers that neither write
\* key k nor destruct the account.
Untouched(s, ch, n, k) ==
    \A m \in 1 .. n :
        /\ IsDiff(ch[m])
        /\ s.diffs[ch[m][2]][k] = Absent
        /\ ~s.diffs[ch[m][2]].destruct

Histories ==
    {freezer.hist[i] : i \in 1 .. Len(freezer.hist)}
        \cup {historyOf(r, rootHash(diffs, disks, diffs[r].parent), diffs[r]) :
                 r \in DOMAIN diffs}

\* C16: buffer.revert fails on a buffer with no transition and leaves it as
\* it is; it leaves a buffer with one transition empty; it takes exactly one
\* transition from any other.  The buffer of the state and the buffers
\* further reverts give are the ones tried.
C16_BufferRevert ==
    \A h \in Histories, g \in Histories :
        \A b \in {buffer, bufferRevert(buffer, g).buffer,
                  bufferRevert(bufferRevert(buffer, g).buffer, g).buffer} :
            LET r == bufferRevert(b, h)
            IN /\ b.layers = 0 =>
                     r.err = "state unrecoverable" /\ r.buffer = b
               /\ b.layers = 1 =>
                     /\ r.err = ""
                     /\ r.buffer = EmptyBuffer
                     /\ bufferEmpty(r.buffer)
                     /\ bufferSize(r.buffer) = 0
               /\ b.layers > 1 =>
                     r.err = "" /\ r.buffer.layers = b.layers - 1

\* A buffer holding two transitions and their writes: the reverts take it
\* to one transition, to none, and fail on the empty one.
C16_Witness ==
    /\ buffer.layers = 2
    /\ bufferSize(buffer) >= 2
    /\ \E h \in Histories :
          /\ h.oacct # Absent
          /\ bufferRevert(buffer, h).buffer.layers = 1
          /\ bufferRevert(bufferRevert(buffer, h).buffer, h).buffer
                = EmptyBuffer
          /\ bufferRevert(EmptyBuffer, h).err = "state unrecoverable"

\* The flush in progress was stopped by a crash.
FlushCrashed ==
    fl.pc \in {"crashed:check", "crashed:nodes", "crashed:states",
               "crashed:id", "crashed:root", "crashed:write", "crashed:reset"}

\* C17: a flush called with an id other than the persistent state id plus
\* the buffer's layers returns an error with the store and the buffer as
\* they were and nothing put into a batch; a flush whose batch write fails
\* returns an error with the store and the buffer as they were; the buffer
\* is reset only once the batch is written, and is empty when flush returns
\* without error.
C17_FlushErrors ==
    ~FlushCrashed =>
        /\ fl.pre.sid + fl.buf.layers # fl.id =>
              /\ fl.pc \in {"check", "failed"}
              /\ kv = fl.pre
              /\ buffer = fl.buf
              /\ fl.batch = NoBatch
        /\ fl.pc = "failed" => kv = fl.pre /\ buffer = fl.buf
        /\ buffer # fl.buf => fl.pc = "done" /\ kv = FlushPost
        /\ fl.pc = "done" =>
              /\ buffer = EmptyBuffer
              /\ bufferEmpty(buffer)
              /\ kv = FlushPost

\* A flush whose batch, holding all the records, failed to be written: the
\* buffer still holds its two layers.
C17_Witness ==
    /\ fl.pc = "failed"
    /\ fl.pre.sid + fl.buf.layers = fl.id
    /\ fl.batch.sid = fl.id /\ fl.batch.srt = fl.root
    /\ buffer.layers = 2 /\ buffer.acct = 2 /\ buffer.node = 2
    /\ kv = fl.pre

\* The histories at hand and a history without content, each as the
\* history of the state root.
HistoriesOf(root) ==
    {[h EXCEPT !.root = root] : h \in Histories}
        \cup {historyOf(root, root, [id |-> 1, onode |-> Absent,
                                     oacct |-> Absent, oslot |-> Absent])}

\* C18: revert with a history of another root returns the unexpected
\* history error, revert of a disk layer with id 0 returns the state
\* unrecoverable error; in both cases the layer's stale flag, the buffer,
\* the store and everything else stay as they were.
C18_RevertRejected ==
    \A i \in 1 .. Len(disks), root \in Roots :
        \A h \in HistoriesOf(root) :
            LET r == revert(Cur, i, h)
            IN /\ h.root # disks[i].root =>
                     /\ r.err = "unexpected history"
                     /\ [r EXCEPT !.err = ""] = Cur
               /\ disks[i].id = 0 =>
                     /\ r.err = IF h.root # disks[i].root
                                THEN "unexpected history"
                                ELSE "state unrecoverable"
                     /\ [r EXCEPT !.err = ""] = Cur

\* A live disk layer above state 0 with a filled buffer, given the history
\* of another state; the first disk layer given a history of its own root.
C18_Witness ==
    /\ ~fatal
    /\ ~disks[base].stale
    /\ disks[base].id > 0
    /\ buffer.layers > 0
    /\ \E h \in Histories :
          revert(Cur, base, h).err = "unexpected history"
    /\ \E h \in HistoriesOf(disks[1].root) :
          revert(Cur, 1, h).err = "state unrecoverable"

\* The history log of freezer fr holds no more than StateHistory entries
\* and none older than head - StateHistory.
WithinLimit(fr, head) ==
    /\ Len(fr.hist) <= StateHistory
    /\ fr.hist # <<>> => fr.hist[1].id >= head - StateHistory

C19_HistoryBoundNoFailure ==
    (~fatal /\ freezerOn) =>
        \A r \in DOMAIN diffs, force \in BOOLEAN :
            (diffs[r].parent = DiskRef(base) /\ ~disks[base].stale) =>
                WithinLimit(commit(Cur, base, r, force, 0).freezer,
                            diffs[r].id)

HistoryAligned(s) ==
    LET fr == s.freezer
        dl == s.disks[s.base]
        n == Len(fr.hist)
    IN /\ fr.tail <= dl.id
       /\ historyHead(fr) = dl.id
       /\ \A k \in 1 .. n : fr.hist[k].id = fr.tail + k
       /\ n > 0 => fr.hist[n].root = dl.root
       /\ \A k \in 2 .. n : fr.hist[k].parent = fr.hist[k - 1].root
       /\ (n > 0 /\ fr.tail = 0) => fr.hist[1].parent = s.disks[1].root
       /\ \A k \in 1 .. n :
             /\ fr.hist[k].root \in DOMAIN s.kv.rid
             /\ s.kv.rid[fr.hist[k].root] = fr.hist[k].id

AlignedAfter(r) ==
    r.err = "" => (~r.disks[r.base].stale /\ HistoryAligned(r))

----------------------------------------------------------------------------
(* The merged iterator over a stack of layers *)

\* The hashes of the iterated accounts or slots are 1 .. MaxHash.
MaxHash == 3

\* The diff layers of an iterated stack; the disk layer is below them.
IterDiffs == 2

Hashes == 1 .. MaxHash

\* The position of an exhausted iterator, above every hash.
Exhausted == MaxHash + 1

\* The diff layers at depth d, as the account iterator finds them: per
\* account no entry, an empty payload (0), or a payload, written d to tell
\* the layers apart; an account without data may be among the destructs.
AccountLayers(d) ==
    UNION { { [data |-> f, destructs |-> D, destructed |-> FALSE] :
                D \in SUBSET {k \in Hashes : f[k] = Absent} } :
            f \in [Hashes -> {Absent, 0, d}] }

\* The diff layers at depth d, as the storage iterator of one account finds
\* them: the slots written, and whether the account is among the destructs.
StorageLayers(d) ==
    { [data |-> f, destructs |-> {}, destructed |-> x] :
        f \in [Hashes -> {Absent, 0, d}], x \in BOOLEAN }

\* The flat states of the disk layer: a key is there with a payload or not.
DiskStates(d) ==
    { [data |-> f, destructs |-> {}, destructed |-> FALSE] :
        f \in [Hashes -> {Absent, d}] }

RECURSIVE DiffStacks(_, _)
DiffStacks(kind, n) ==
    IF n = 0 THEN {<<>>}
    ELSE { Append(s, l) :
             s \in DiffStacks(kind, n - 1),
             l \in IF kind = "account" THEN AccountLayers(n)
                   ELSE StorageLayers(n) }

\* The stacks, head first: the diff layers over the disk layer.
Stacks(kind) ==
    { Append(s, d) : s \in DiffStacks(kind, IterDiffs),
                     d \in DiskStates(IterDiffs + 1) }

\* What the iterator of one layer holds at hash k: the data of the layer,
\* or an empty payload for an account that is destructed only.
entryOf(l, k) ==
    IF l.data[k] # Absent THEN l.data[k]
    ELSE IF k \in l.destructs THEN 0 ELSE Absent

\* Seek as it would be with the start hash itself skipped.
seekPast(l, h) ==
    LET ks == {k \in Hashes : k > h /\ entryOf(l, k) # Absent}
    IN IF ks = {} THEN Exhausted
       ELSE CHOOSE k \in ks : \A x \in ks : k <= x

\* Seek of the iterator of one layer: its first hash at or above h.
seekTo(l, h) ==
    LET ks == {k \in Hashes : k >= h /\ entryOf(l, k) # Absent}
    IN IF ks = {} THEN Exhausted
       ELSE CHOOSE k \in ks : \A x \in ks : k <= x

\* The iterated layers as they would be with the layers below a destruct
\* of the account left in.
iterStackWhole(kind, stack) == stack

\* The layers a merged iterator is composed of: all of them for accounts;
\* for the slots of an account, the layers down to the first one that
\* destructs the account, that one included.
iterStack(kind, stack) ==
    LET ds == {d \in 1 .. Len(stack) : stack[d].destructed}
    IN IF kind = "storage" /\ ds # {}
       THEN SubSeq(stack, 1, CHOOSE d \in ds : \A x \in ds : d <= x)
       ELSE stack

\* The winner as it would be with the deepest layer preferred.
winnerDeepest(pos, h) ==
    CHOOSE d \in DOMAIN pos : pos[d] = h /\ \A x \in DOMAIN pos : pos[x] = h => x <= d

\* Among the iterators positioned at hash h, the one of the lowest depth.
winner(pos, h) ==
    CHOOSE d \in DOMAIN pos : pos[d] = h /\ \A x \in DOMAIN pos : pos[x] = h => d <= x

\* The advance as it would be with the winner alone moved.
advanceWinner(ls, pos, h) ==
    [d \in DOMAIN pos |->
        IF d = winner(pos, h) THEN seekTo(ls[d], h + 1) ELSE pos[d]]

\* Every iterator positioned at hash h is advanced past it.
advance(ls, pos, h) ==
    [d \in DOMAIN pos |-> IF pos[d] = h THEN seekTo(ls[d], h + 1) ELSE pos[d]]

\* The iterator opened on a stack with start hash h: every iterator of a
\* layer is at its first hash at or above h.
iterOpen(kind, stack, h) ==
    LET ls == iterStack(kind, stack)
    IN [kind |-> kind, stack |-> stack, seek |-> h,
        pos |-> [d \in 1 .. Len(ls) |-> seekTo(ls[d], h)],
        out |-> <<>>, pc |-> "open"]

\* Next: the smallest hash the iterators are positioned at is taken with
\* the payload of the lowest depth, the iterators at that hash move on; an
\* empty payload is dropped and the next hash is taken.  Without a hash
\* left the iteration is over.
RECURSIVE iterNext(_)
iterNext(s) ==
    LET ls == iterStack(s.kind, s.stack)
        live == {d \in DOMAIN s.pos : s.pos[d] # Exhausted}
    IN IF live = {} THEN [s EXCEPT !.pc = "done"]
       ELSE LET h == CHOOSE x \in {s.pos[d] : d \in live} :
                        \A d \in live : x <= s.pos[d]
                v == entryOf(ls[winner(s.pos, h)], h)
                moved == [s EXCEPT !.pos = advance(ls, s.pos, h)]
            IN IF v = 0 THEN iterNext(moved)
               ELSE [moved EXCEPT !.out = Append(@, <<h, v>>)]

\* The payload a read of hash k finds from depth d of the stack down: the
\* data of the first layer that holds the key, nothing (0) below a destruct
\* and nothing when no layer holds it.
RECURSIVE viewAt(_, _, _)
viewAt(stack, d, k) ==
    IF d > Len(stack) THEN 0
    ELSE IF stack[d].data[k] # Absent THEN stack[d].data[k]
    ELSE IF k \in stack[d].destructs \/ stack[d].destructed THEN 0
    ELSE viewAt(stack, d + 1, k)

IterKinds == {"account", "storage"}

InitIter ==
    /\ diffs = EmptyMap
    /\ disks = <<[root |-> 1, id |-> 0, stale |-> FALSE]>>
    /\ base = 1
    /\ layers = (1 :> DiskRef(1))
    /\ descendants = EmptyMap
    /\ lookup = EmptyLookup
    /\ buffer = EmptyBuffer
    /\ cache = EmptyCache
    /\ kv = [node |-> InitialState.node, acct |-> InitialState.acct,
             slot |-> InitialState.slot, sid |-> 0, srt |-> 1,
             rid |-> EmptyMap]
    /\ gt = (1 :> InitialState)
    /\ freezerOn = FALSE
    /\ freezer = [tail |-> 0, hist |-> <<>>]
    /\ numRoots = 1
    /\ fatal = FALSE
    /\ fl = NoFlush
    /\ rd = NoReader
    /\ wr = NoWriter
    /\ \E kind \in IterKinds : \E stack \in Stacks(kind) :
          it = [NoIter EXCEPT !.kind = kind, !.stack = stack, !.pc = "closed"]
    /\ boots = 1

treeVars ==
    <<diffs, disks, base, layers, descendants, lookup, buffer, cache, kv,
      freezer, freezerOn, gt, numRoots, fatal, fl, rd, wr, boots>>

\* AccountIterator(root, seek) or StorageIterator(root, account, seek).
IterOpen ==
    /\ it.pc = "closed"
    /\ \E h \in 0 .. Exhausted : it' = iterOpen(it.kind, it.stack, h)
    /\ UNCHANGED treeVars

\* One call of Next.
IterNext ==
    /\ it.pc = "open"
    /\ it' = iterNext(it)
    /\ UNCHANGED treeVars

NextIter == IterOpen \/ IterNext

SpecIter == InitIter /\ [][NextIter]_vars


----------------------------------------------------------------------------
(* Properties of the merged iterator *)

IterStarted == it.pc \in {"open", "done"}

\* The hashes emitted so far, in the order of their emission.
Emitted == [i \in 1 .. Len(it.out) |-> it.out[i][1]]

\* The keys of the merged view at or above hash h: those a read at the
\* head finds with a payload.
Existent(h) == {k \in Hashes : k >= h /\ viewAt(it.stack, 1, k) # 0}

C22_IterNewest ==
    IterStarted =>
        \A i \in 1 .. Len(it.out) :
            LET h == it.out[i][1]
                ls == iterStack(it.kind, it.stack)
                at == {d \in 1 .. Len(ls) : entryOf(ls[d], h) # Absent}
            IN /\ it.out[i][2] = viewAt(it.stack, 1, h)
               /\ at # {}
               /\ \A d \in at : it.out[i][2] <= d
               /\ it.out[i][2] \in at

\* A key was emitted with the value of the head while a layer below holds
\* another value of it.
C22_Witness ==
    /\ IterStarted
    /\ \E i \in 1 .. Len(it.out) :
          /\ it.out[i][2] = 1
          /\ \E d \in 2 .. Len(it.stack) : it.stack[d].data[it.out[i][1]] = d

\* C23: the merged iterator never emits a key whose newest value is empty;
\* a storage iterator at a head above a layer that destructs the account
\* emits none of the slots written below that layer and only slots written
\* at or above it.
C23_IterDeletions ==
    IterStarted =>
        /\ \A i \in 1 .. Len(it.out) :
              /\ it.out[i][2] # 0
              /\ viewAt(it.stack, 1, it.out[i][1]) # 0
        /\ \A d \in 1 .. Len(it.stack) :
              (it.kind = "storage" /\ it.stack[d].destructed) =>
                  \A i \in 1 .. Len(it.out) :
                      /\ it.out[i][2] <= d
                      /\ \E x \in 1 .. d :
                            it.stack[x].data[it.out[i][1]] = it.out[i][2]

\* A storage iteration has ended over a stack whose second layer destructs
\* the account: a slot written below the destruct was left out and a slot
\* written at or above it was emitted.
C23_Witness ==
    /\ it.pc = "done"
    /\ it.seek = 0
    /\ it.kind = "storage"
    /\ it.stack[2].destructed
    /\ it.out # <<>>
    /\ \E k \in Hashes :
          /\ it.stack[3].data[k] # Absent
          /\ \A i \in 1 .. Len(it.out) : it.out[i][1] # k

----------------------------------------------------------------------------
(* The journal: Database.Journal and the load of the journal at startup *)

\* The diff layers ref reaches by parent links, itself included, the
\* bottom-most first.
RECURSIVE diffChain(_, _)
diffChain(s, ref) ==
    IF IsDiff(ref)
    THEN Append(diffChain(s, s.diffs[ref[2]].parent), ref[2])
    ELSE <<>>

\* The journal as it would be with the content of the buffer left out.
journalOfDiffs(s, head) ==
    LET chain == diffChain(s, s.layers[head])
    IN [err |-> IF s.disks[s.base].stale THEN "stale" ELSE "",
        valid |-> TRUE,
        persisted |-> s.kv.srt,
        root |-> s.disks[s.base].root,
        id |-> s.disks[s.base].id,
        buffer |-> EmptyBuffer,
        diffs |-> [i \in 1 .. Len(chain) |->
                      [root |-> chain[i], layer |-> s.diffs[chain[i]]]]]

\* Journal(head): the root of the persistent state, the disk layer of the
\* tree with its id and the content of the buffer, and the diff layers
\* reachable from head, parent first.  The disk layer is read for it: as
\* every read of a stale layer, the journal of a stale disk layer fails.
journalOf(s, head) ==
    LET chain == diffChain(s, s.layers[head])
    IN [err |-> IF s.disks[s.base].stale THEN "stale" ELSE "",
        valid |-> TRUE,
        persisted |-> s.kv.srt,
        root |-> s.disks[s.base].root,
        id |-> s.disks[s.base].id,
        buffer |-> s.buffer,
        diffs |-> [i \in 1 .. Len(chain) |->
                      [root |-> chain[i], layer |-> s.diffs[chain[i]]]]]

\* The tree of a journal without its diff layers: the disk layer alone.
diskOnly(s, root, id, b) ==
    [s EXCEPT
        !.diffs = EmptyMap,
        !.disks = <<[root |-> root, id |-> id, stale |-> FALSE]>>,
        !.base = 1,
        !.layers = (root :> DiskRef(1)),
        !.descendants = EmptyMap,
        !.lookup = EmptyLookup,
        !.buffer = b,
        !.cache = EmptyCache,
        !.freezer = IF freezerOn THEN truncateFromHead(s.freezer, id)
                    ELSE s.freezer,
        !.fatal = FALSE,
        !.err = "",
        !.res = 0]

\* The diff layers of the journal from the i-th on are put back, each on
\* top of the one before it.
RECURSIVE loadDiffLayer(_, _, _)
loadDiffLayer(s, j, i) ==
    IF i > Len(j.diffs) THEN s
    ELSE LET root == j.diffs[i].root
             parent == IF i = 1 THEN DiskRef(1)
                       ELSE DiffRef(j.diffs[i - 1].root)
             l == [j.diffs[i].layer EXCEPT !.parent = parent, !.stale = FALSE]
             dfs == Put(s.diffs, root, l)
         IN loadDiffLayer(
                [s EXCEPT
                    !.diffs = dfs,
                    !.layers = Put(s.layers, root, DiffRef(root)),
                    !.descendants = Link(s.descendants,
                                         ancestors(dfs, s.disks, DiffRef(root)),
                                         root),
                    !.lookup = addLayer(s.lookup, l, root)],
                j, i + 1)

\* The load as it would be with a journal that fails validation taken as
\* it is.
loadLayersUnchecked(s, j) ==
    loadDiffLayer(diskOnly(s, j.root, j.id, j.buffer), j, 1)

\* Startup on the store of s with journal j: a journal that fails
\* validation, or that was written on another persistent state, is
\* discarded and the tree is the disk layer of the persistent state alone;
\* otherwise the disk layer, the buffer and the diff layers of the journal
\* are put back.
loadLayers(s, j) ==
    IF ~j.valid \/ j.persisted # s.kv.srt
    THEN diskOnly(s, s.kv.srt, s.kv.sid, EmptyBuffer)
    ELSE loadDiffLayer(diskOnly(s, j.root, j.id, j.buffer), j, 1)

\* The store is opened at most MaxBoots times.
MaxBoots == 2

\* Journal(head), Close and New on the same store; the journal may have
\* been damaged in between.
Restart ==
    /\ ~fatal
    /\ boots < MaxBoots
    /\ boots' = boots + 1
    /\ UNCHANGED <<fl, rd, wr>>
    /\ \E head \in DOMAIN layers, damaged \in BOOLEAN :
          /\ journalOf(Cur, head).err = ""
          /\ Install(loadLayers(Cur, [journalOf(Cur, head) EXCEPT
                                         !.valid = ~damaged]))

NextJournal == Add \/ Cap \/ Read \/ Recover \/ Restart

SpecJournal == Init /\ [][NextJournal]_vars


----------------------------------------------------------------------------
(* Properties of the journal *)

\* What a diff layer carries: its id, its writes and the values they
\* replace.
Content(d) ==
    [id |-> d.id, node |-> d.node, destruct |-> d.destruct, acct |-> d.acct,
     slot |-> d.slot, onode |-> d.onode, oacct |-> d.oacct, oslot |-> d.oslot]

\* State r is readable in s with the values of its content.
Readable(s, r) ==
    /\ r \in DOMAIN s.layers
    /\ \A k \in Keys : read(s, s.layers[r], k) = Value(s.gt[r][k])

\* The tree a restart gives after Journal(head) in state s.
Reopened(s, head) == loadLayers(s, journalOf(s, head))

\* The round trip of the journal for head in state s: the disk layer and
\* the diff layers reachable from head are back with their content, their
\* states are readable, and no state below the disk layer is.
RoundTrip(s, head) ==
    LET n == Reopened(s, head)
        chain == diffChain(s, s.layers[head])
        dl == s.disks[s.base]
    IN /\ n.disks[n.base] = [root |-> dl.root, id |-> dl.id, stale |-> FALSE]
       /\ n.buffer = s.buffer
       /\ Readable(n, dl.root)
       /\ \A i \in 1 .. Len(chain) :
             /\ chain[i] \in DOMAIN n.diffs
             /\ Content(n.diffs[chain[i]]) = Content(s.diffs[chain[i]])
             /\ Readable(n, chain[i])
       /\ \A r \in DOMAIN s.kv.rid :
             s.kv.rid[r] < dl.id => r \notin DOMAIN n.layers

\* C25: after journal(head) followed by a restart, the disk layer and every
\* diff layer that was reachable from head are restored with identical
\* content, every state at or above the disk layer is readable with the
\* same values, and no state below the disk layer is readable.
C25_JournalRoundTrip ==
    ~fatal =>
        \A head \in DOMAIN layers :
            journalOf(Cur, head).err = "" => RoundTrip(Cur, head)

\* A store with a flushed state, a state in the buffer and two diff layers
\* on top has been journaled at its head and reopened.
C25_Witness ==
    /\ ~fatal
    /\ boots = 2
    /\ kv.sid > 0
    /\ ~bufferEmpty(buffer)
    /\ \E head \in DOMAIN diffs :
          /\ Len(diffChain(Cur, DiffRef(head))) = 2
          /\ gt[head] # gt[disks[base].root]
          /\ Readable(Cur, head)


\* The tree a restart gives after Journal(head) in state s when the stored
\* journal fails validation.
ReopenedDamaged(s, head) ==
    loadLayers(s, [journalOf(s, head) EXCEPT !.valid = FALSE])

\* C26: when the stored journal fails validation at startup it is
\* discarded and the tree is rebuilt with the disk layer only: the
\* persistent state stays readable, and no state that was in the journal
\* only, a diff layer or the states of the buffer, is readable.
C26_CorruptedJournal ==
    ~fatal =>
        \A head \in DOMAIN layers :
            LET n == ReopenedDamaged(Cur, head)
            IN journalOf(Cur, head).err = "" =>
               /\ DOMAIN n.layers = {kv.srt}
               /\ n.layers[kv.srt] = DiskRef(n.base)
               /\ n.disks[n.base] = [root |-> kv.srt, id |-> kv.sid,
                                     stale |-> FALSE]
               /\ n.diffs = EmptyMap
               /\ n.buffer = EmptyBuffer
               /\ n.kv = kv
               /\ Readable(n, kv.srt)

\* A store with flushed states, states in the buffer and diff layers on
\* top is reopened on a damaged journal: the state of the head is gone.
C26_Witness ==
    /\ ~fatal
    /\ kv.sid > 0
    /\ ~bufferEmpty(buffer)
    /\ \E head \in DOMAIN diffs :
          /\ head \in DOMAIN layers
          /\ journalOf(Cur, head).err = ""
          /\ gt[head] # gt[kv.srt]
          /\ DOMAIN ReopenedDamaged(Cur, head).layers = {kv.srt}


----------------------------------------------------------------------------
(* Properties of the stale flag and of the locks *)

\* C27: in every execution of add, cap, commit and revert no layer has its
\* stale flag set a second time: the panic of markStale on a disk layer
\* that is stale already is never reached, also when cap is called on the
\* heads of a forked tree one after the other.
C27_StaleOnce == ~fatal

----------------------------------------------------------------------------
(* add and cap called by two threads *)

\* Number of caps that run between an add's parent lookup and its insertion.
ConcCaps == 1

\* The first half of add, up to the write lock: the parent is fetched with
\* tree.get and the new layer is built on it.
addLookup(s, root, parentRoot, c) ==
    LET parent == get(s, parentRoot)
    IN [root |-> root, parentRoot |-> parentRoot, c |-> c,
        l |-> update(s.diffs, s.disks, parent, root,
                     stateID(s.diffs, s.disks, parent) + 1, c,
                     s.gt[parentRoot]),
        content |-> ApplyChange(s.gt[parentRoot], c, root),
        pre |-> s, ops |-> <<>>]

\* The second half of add, under the write lock.
addInsert(s, a) ==
    LET dfs == Put(s.diffs, a.root, a.l)
    IN [s EXCEPT
          !.diffs = dfs,
          !.layers = Put(s.layers, a.root, DiffRef(a.root)),
          !.descendants = Link(s.descendants,
                               ancestors(dfs, s.disks, DiffRef(a.root)),
                               a.root),
          !.lookup = addLayer(s.lookup, a.l, a.root),
          !.gt = Put(s.gt, a.root, a.content),
          !.numRoots = s.numRoots + 1]

AdLookup ==
    /\ ~fatal
    /\ wr.pc = "idle"
    /\ numRoots < MaxRoot
    /\ \E parentRoot \in DOMAIN layers, c \in Changes :
          LET a == addLookup(Cur, numRoots + 1, parentRoot, c)
          IN wr' = [NoWriter EXCEPT !.pc = "looked", !.mode = "add",
                                    !.held = a.l.parent, !.call = <<a>>]
    /\ UNCHANGED <<diffs, disks, base, layers, descendants, lookup, buffer,
                   cache, kv, freezer, freezerOn, gt, numRoots, fatal, fl, rd,
                   it, boots>>

\* A whole cap of the other thread, while the add waits for the write lock.
CapBetween ==
    /\ ~fatal
    /\ wr.pc = "looked"
    /\ Len(wr.call[1].ops) < ConcCaps
    /\ \E root \in Roots, keep \in 0 .. MaxKeep :
          \E failRoot \in {0} \cup Persistable(Cur, root) :
              /\ Install(cap(Cur, root, keep, failRoot))
              /\ wr' = [wr EXCEPT !.call[1].ops =
                           Append(@, [root |-> root, keep |-> keep,
                                      failRoot |-> failRoot])]
    /\ UNCHANGED <<fl, rd, boots>>

AdInsert ==
    /\ ~fatal
    /\ wr.pc = "looked"
    /\ Install(addInsert(Cur, wr.call[1]))
    /\ wr' = [wr EXCEPT !.pc = "inserted", !.held = NoRef]
    /\ UNCHANGED <<fl, rd, boots>>

AdReturn ==
    /\ wr.pc = "inserted"
    /\ wr' = NoWriter
    /\ UNCHANGED <<diffs, disks, base, layers, descendants, lookup, buffer,
                   cache, kv, freezer, freezerOn, gt, numRoots, fatal, fl, rd,
                   it, boots>>

\* The calls of one thread at a time.
SerialAdd == wr.pc = "idle" /\ Add

SerialCap == wr.pc = "idle" /\ Cap

NextConc ==
    SerialAdd \/ SerialCap \/ AdLookup \/ CapBetween \/ AdInsert \/ AdReturn

SpecConc == Init /\ [][NextConc]_vars

\* The caps ops[from .. Len(ops)] run one after the other on s.
RECURSIVE capsFrom(_, _, _)
capsFrom(s, ops, from) ==
    IF from > Len(ops) \/ s.fatal THEN s
    ELSE capsFrom([cap(s, ops[from].root, ops[from].keep, ops[from].failRoot)
                      EXCEPT !.err = "", !.res = 0],
                  ops, from + 1)

\* The serial order in which the add a runs after the first i caps.
serial(a, i) ==
    LET before == capsFrom(a.pre, SubSeq(a.ops, 1, i), 1)
        added == [add(before, a.root, a.parentRoot, a.c)
                     EXCEPT !.err = "", !.res = 0]
    IN capsFrom(added, a.ops, i + 1)

\* What a caller can tell of a tree: the layers by root with the layers
\* below each, the descendants, the lookup index and the base.
TreeOf(s) ==
    [layers |->
        [r \in DOMAIN s.layers |->
            LET path == <<s.layers[r]>>
                            \o ParentPath(s.diffs, s.disks, s.layers[r])
            IN [i \in 1 .. Len(path) |->
                  <<path[i][1], rootHash(s.diffs, s.disks, path[i]),
                    IF IsDiff(path[i]) THEN s.diffs[path[i][2]].stale
                    ELSE s.disks[path[i][2]].stale>>]],
     descendants |-> s.descendants,
     lookup |-> s.lookup,
     base |-> s.disks[s.base].root,
     fatal |-> s.fatal]

\* C28: when an add has inserted its layer, the tree is the one some serial
\* order of the add and of the caps that ran since the add's parent lookup
\* would have built.
C28_Linearizable ==
    wr.pc = "inserted" =>
        \E i \in 0 .. Len(wr.call[1].ops) :
            TreeOf(Cur) = TreeOf(serial(wr.call[1], i))

----------------------------------------------------------------------------
(* cap statement by statement, and the queries of the tree *)

\* Number of state roots of the runs with a cap in steps.
PubMaxRoot == 3

\* The layer cap persists: root itself for a full commit, else the parent of
\* the layer keep - 1 hops below root; 0 when cap returns without a change.
capTarget(s, root, keep) ==
    IF keep = 0 THEN root
    ELSE LET diff == Dive(s.diffs, root, keep - 1)
         IN IF diff = 0 \/ IsDisk(s.diffs[diff].parent) THEN 0
            ELSE s.diffs[diff].parent[2]

\* The positions of a cap at which it holds the write lock of the tree.
CapLocked == {"locked", "persisted", "based", "layered", "removed"}

\* A query as it would be without the read lock.
RLockIgnored(w) == TRUE

\* tree.lock.RLock succeeds: no cap holds the write lock.
RLockFree(w) == w.pc \notin CapLocked

PubAdd ==
    /\ ~fatal
    /\ wr.pc = "idle"
    /\ numRoots < PubMaxRoot
    /\ \E parentRoot \in Roots, c \in Changes :
          Install(add(Cur, numRoots + 1, parentRoot, c))
    /\ wr' = NoWriter
    /\ UNCHANGED <<fl, rd, boots>>

\* cap up to tree.lock.Lock; call keeps the state the cap started in.
CpLock ==
    /\ ~fatal
    /\ wr.pc = "idle"
    /\ \E root \in DOMAIN layers, keep \in 0 .. MaxKeep :
          /\ IsDiff(layers[root])
          /\ capTarget(Cur, root, keep) # 0
          /\ \E failRoot \in {0} \cup Persistable(Cur, root) :
                wr' = [NoWriter EXCEPT
                          !.pc = "locked", !.mode = "cap", !.dl = root,
                          !.keep = keep, !.failRoot = failRoot,
                          !.parent = capTarget(Cur, root, keep),
                          !.held = DiffRef(capTarget(Cur, root, keep)),
                          !.call = <<[pre |-> Cur]>>]
    /\ UNCHANGED <<diffs, disks, base, layers, descendants, lookup, buffer,
                   cache, kv, freezer, freezerOn, gt, numRoots, fatal, fl, rd,
                   it, boots>>

\* persist, and for a partial cap the new disk layer put in the place of
\* its diff layer.
CpPersist ==
    /\ ~fatal
    /\ wr.pc = "locked"
    /\ LET w == persist(Cur, wr.parent, wr.keep = 0, wr.failRoot)
           diff == IF wr.keep = 0 THEN 0 ELSE Dive(diffs, wr.dl, wr.keep - 1)
       IN IF w.fatal
          THEN Install(Panicked(Cur, w)) /\ wr' = [wr EXCEPT !.pc = "idle"]
          ELSE IF w.err # ""
          THEN Install(w) /\ wr' = [wr EXCEPT !.pc = "idle", !.held = NoRef]
          ELSE /\ wr' = [wr EXCEPT !.pc = "persisted", !.disk = w.res]
               /\ IF wr.keep = 0 THEN Install(w)
                  ELSE Install([w EXCEPT
                          !.diffs[diff].parent = DiskRef(w.res),
                          !.layers = Put(w.layers, wr.parent,
                                         DiskRef(w.res))])
    /\ UNCHANGED <<fl, rd, boots>>

\* tree.base = base of a full commit.
CpBaseFirst ==
    /\ wr.pc = "persisted"
    /\ wr.keep = 0
    /\ Install([Cur EXCEPT !.base = wr.disk])
    /\ wr' = [wr EXCEPT !.pc = "based"]
    /\ UNCHANGED <<fl, rd, boots>>

CpLayers ==
    /\ wr.pc = "based"
    /\ Install([Cur EXCEPT !.layers = (wr.dl :> DiskRef(wr.disk))])
    /\ wr' = [wr EXCEPT !.pc = "layered", !.held = NoRef]
    /\ UNCHANGED <<fl, rd, boots>>

\* The fresh descendants and lookup index, and the return.
CpIndex ==
    /\ wr.pc = "layered"
    /\ Install([Cur EXCEPT !.descendants = EmptyMap, !.lookup = EmptyLookup])
    /\ wr' = [wr EXCEPT !.pc = "idle"]
    /\ UNCHANGED <<fl, rd, boots>>

\* The removal pass of a partial cap.
CpRemove ==
    /\ wr.pc = "persisted"
    /\ wr.keep # 0
    /\ LET old == disks[base].root
           gone == Removed(diffs, disks, layers, {old})
           gonediffs == {x \in gone : x \in DOMAIN layers /\ IsDiff(layers[x])}
       IN Install([Cur EXCEPT
             !.layers = Drop(layers, gone),
             !.descendants = Drop(descendants, gone),
             !.lookup = removeLayer(RemoveLookups(lookup, diffs, gonediffs),
                                    diffs[wr.parent], wr.parent)])
    /\ wr' = [wr EXCEPT !.pc = "removed", !.held = NoRef]
    /\ UNCHANGED <<fl, rd, boots>>

\* tree.base = newBase of a partial cap, and the return.
CpBaseLast ==
    /\ wr.pc = "removed"
    /\ Install([Cur EXCEPT !.base = wr.disk])
    /\ wr' = [wr EXCEPT !.pc = "idle"]
    /\ UNCHANGED <<fl, rd, boots>>

\* bottom, get and the lookups: what a thread sees of the tree under the
\* read lock, with the cap that is running or ran last.
TreeQuery ==
    /\ ~fatal
    /\ rd.pc = "idle"
    /\ RLockFree(wr)
    /\ rd' = [NoReader EXCEPT
                 !.pc = "done",
                 !.res = [err |-> "",
                          val |-> [base |-> base, layers |-> layers,
                                   descendants |-> descendants,
                                   lookup |-> lookup, during |-> wr]]]
    /\ UNCHANGED <<diffs, disks, base, layers, descendants, lookup, buffer,
                   cache, kv, freezer, freezerOn, gt, numRoots, fatal, fl, wr,
                   it, boots>>

NextPub ==
    \/ PubAdd
    \/ CpLock
    \/ CpPersist
    \/ CpBaseFirst
    \/ CpLayers
    \/ CpIndex
    \/ CpRemove
    \/ CpBaseLast
    \/ TreeQuery

SpecPub == Init /\ [][NextPub]_vars

\* The roots the lists of a lookup index name.
LookupRoots(lk) ==
    {lk.nodes[i] : i \in 1 .. Len(lk.nodes)}
        \cup {lk.destructs[i] : i \in 1 .. Len(lk.destructs)}
        \cup {lk.accounts[i] : i \in 1 .. Len(lk.accounts)}
        \cup {lk.storages[i] : i \in 1 .. Len(lk.storages)}

\* The steps of a cap add up to the cap.
CapInSteps ==
    (wr.pc = "idle" /\ wr.call # <<>> /\ ~fatal) =>
        LET f == cap(wr.call[1].pre, wr.dl, wr.keep, wr.failRoot)
        IN /\ base = f.base
           /\ layers = f.layers
           /\ descendants = f.descendants
           /\ lookup = f.lookup
           /\ disks = f.disks
           /\ buffer = f.buffer
           /\ kv = f.kv
           /\ freezer = f.freezer

\* The roots of the layers of s that are no layers of f.
GoneRoots(s, f) == DOMAIN s.layers \ DOMAIN f.layers

\* The diff layers of s that f dropped or replaced by a disk layer.
GoneDiffs(s, f) ==
    {r \in DOMAIN s.layers :
        /\ IsDiff(s.layers[r])
        /\ r \in DOMAIN f.layers => IsDisk(f.layers[r])}

\* C29: a query that returned the disk layer a cap made the base saw
\* tree.layers, descendants and the lookup index as that cap left them, with
\* no descendant set of a root the cap removed and no lookup entry of a diff
\* layer the cap removed or persisted.
C29_Publication ==
    (rd.pc = "done" /\ rd.res.val.during.call # <<>>) =>
        LET seen == rd.res.val
            w == seen.during
            pre == w.call[1].pre
            f == cap(pre, w.dl, w.keep, w.failRoot)
        IN seen.base # pre.base =>
              /\ seen.layers = f.layers
              /\ seen.descendants = f.descendants
              /\ seen.lookup = f.lookup
              /\ DOMAIN seen.descendants \cap GoneRoots(pre, f) = {}
              /\ LookupRoots(seen.lookup) \cap GoneDiffs(pre, f) = {}

\* A query saw the base of a partial cap that removed a root with a
\* descendant set and persisted a diff layer with lookup entries, while
\* another diff layer kept its entries.
C29_Witness ==
    /\ rd.pc = "done"
    /\ rd.res.val.during.call # <<>>
    /\ rd.res.val.during.keep # 0
    /\ LET seen == rd.res.val
           pre == seen.during.call[1].pre
       IN /\ seen.base # pre.base
          /\ DOMAIN pre.descendants \ DOMAIN seen.descendants # {}
          /\ LookupRoots(pre.lookup) \ LookupRoots(seen.lookup) # {}
          /\ LookupRoots(seen.lookup) # {}

----------------------------------------------------------------------------
(* Reads of the disk layer interleaved with commit and revert *)

\* Database.Recover as far as the markStale of its first revert.
RvStart(root) ==
    /\ ~fatal
    /\ wr.pc = "idle"
    /\ wr.mode \in {"", "cap"}
    /\ freezerOn
    /\ Recoverable(Cur, root)
    /\ ~disks[base].stale
    /\ markStaleLock(base)
    /\ disks' = [disks EXCEPT ![base].stale = TRUE]
    /\ wr' = [NoWriter EXCEPT !.pc = "revert", !.mode = "cap", !.dl = root,
                              !.disk = base]
    /\ UNCHANGED <<diffs, base, layers, descendants, lookup, buffer, cache, kv,
                   freezer, freezerOn, gt, numRoots, fatal, fl, rd, it,
                   boots>>

\* The rest of the revert and the reset of the tree; Recover returns when
\* the disk layer has the root asked for.
RvRevert ==
    /\ ~fatal
    /\ wr.pc = "revert"
    /\ LET s == [Cur EXCEPT !.disks[wr.disk].stale = FALSE]
           r == revert(s, s.base, readHistory(s.freezer, s.disks[s.base].id).h)
           t == reset(r, r.res)
       IN IF r.err # "" \/ r.fatal
          THEN Install(r) /\ wr' = [NoWriter EXCEPT !.mode = "cap"]
          ELSE IF t.disks[t.base].root = wr.dl
          THEN /\ Install([t EXCEPT !.freezer =
                              truncateFromHead(t.freezer, t.disks[t.base].id)])
               /\ wr' = [NoWriter EXCEPT !.mode = "cap"]
          ELSE Install(t) /\ wr' = [wr EXCEPT !.pc = "between"]
    /\ UNCHANGED <<fl, rd, boots>>

\* The markStale of the next revert of the loop.
RvMark ==
    /\ ~fatal
    /\ wr.pc = "between"
    /\ ~disks[base].stale
    /\ markStaleLock(base)
    /\ disks' = [disks EXCEPT ![base].stale = TRUE]
    /\ wr' = [wr EXCEPT !.pc = "revert", !.disk = base]
    /\ UNCHANGED <<diffs, base, layers, descendants, lookup, buffer, cache, kv,
                   freezer, freezerOn, gt, numRoots, fatal, fl, rd, it,
                   boots>>

NextBuf ==
    \/ IsoAdd
    \/ \E root \in Roots, method \in Methods : RdStart(root, method)
    \/ RdCheck
    \/ RdLocal
    \/ RdDisk
    \/ \E root \in Roots, keep \in 0 .. MaxKeep :
          \E failRoot \in {0} \cup Persistable(Cur, root) :
              CmStart(root, keep, failRoot)
    \/ CmFinish
    \/ \E root \in Roots : RvStart(root)
    \/ RvRevert
    \/ RvMark

SpecBuf == Init /\ [][NextBuf]_vars

\* The positions of a commit or a revert past its markStale.
Mutating == {"commit", "revert"}

\* C30: the buffer changes only in the part of a commit or a revert that
\* follows the markStale of the disk layer it runs on, and never while a
\* read that passed the stale check of a disk layer holds the layer's lock.
C30_BufferAfterStale ==
    [][buffer' # buffer =>
          /\ wr.pc \in Mutating
          /\ disks[wr.disk].stale
          /\ rd.pc # "disk"]_vars

\* A commit or a revert that changes the buffer is past its markStale while
\* a thread has yet to check the same disk layer.
C30_Witness ==
    /\ wr.pc \in Mutating
    /\ rd.pc = "check"
    /\ rd.at = DiskRef(wr.disk)
    /\ IF wr.pc = "commit"
       THEN cap([Cur EXCEPT !.disks[wr.disk].stale = FALSE],
                wr.dl, wr.keep, wr.failRoot).buffer # buffer
       ELSE ~bufferEmpty(buffer)

----------------------------------------------------------------------------
(* Properties of commit, revert and the state history *)

\* The diff layers of the tree that sit on the disk layer of the tree.
Bottoms(s) ==
    {r \in DOMAIN s.layers :
        IsDiff(s.layers[r]) /\ s.diffs[r].parent = DiskRef(s.base)}

\* force as commit raises it: the tail truncation would pass the persisted
\* state id.
forceRaised(s, r) ==
    /\ freezerOn
    /\ StateHistory # 0
    /\ s.diffs[r].id - s.freezer.tail > StateHistory
    /\ s.kv.sid < s.diffs[r].id - StateHistory + 1

\* What the claim says of the commit of r that took s to w.
CommitAsClaimed(s, w, r, force) ==
    LET mustFlush == \/ bufferFull(bufferCommit(s.buffer, s.diffs[r]))
                     \/ force
                     \/ forceRaised(s, r)
        flushed == w.kv.sid = s.diffs[r].id /\ w.kv.srt = r
    IN /\ flushed <=> mustFlush
       /\ ~flushed => /\ w.kv.sid = s.kv.sid
                      /\ w.kv.srt = s.kv.srt
                      /\ w.buffer.layers = s.buffer.layers + 1
       /\ flushed => bufferEmpty(w.buffer)

Restored(o, v) == IF o # Absent THEN o ELSE v

RevertsStore ==
    /\ freezerOn
    /\ ~disks[base].stale
    /\ bufferEmpty(buffer)
    /\ LET rh == readHistory(freezer, disks[base].id)
       IN /\ ~rh.err
          /\ revert(Cur, base, rh.h).err = ""
          /\ rh.h.onode # Absent
          /\ rh.h.onode # kv.node

----------------------------------------------------------------------------
(* repairReverseDiff *)

\* Largest number of entries of the log a repair is given.
MaxLog == 3

\* Number of state roots the entries and the disk layer of a repair have.
RepairRoots == 3

\* The entries a repair may find: ok is FALSE for an entry loadReverseDiff
\* fails to read or decode.
RepairEntries == [root : 1 .. RepairRoots, ok : BOOLEAN]

RepairLogs ==
    {[tail |-> tl, hist |-> h] :
        tl \in 0 .. 1,
        h \in UNION {[1 .. n -> RepairEntries] : n \in 0 .. MaxLog}}

\* The loop of repairReverseDiff from the entry current down to the tail.
RECURSIVE repairLoop(_, _, _)
repairLoop(fr, current, diskroot) ==
    IF current <= fr.tail THEN [head |-> fr.tail, freezer |-> fr]
    ELSE LET rdiff == fr.hist[current - fr.tail]
         IN IF ~rdiff.ok THEN repairLoop(fr, current - 1, diskroot)
            ELSE IF rdiff.root = diskroot
            THEN [head |-> current, freezer |-> fr]
            ELSE repairLoop(truncateFromHead(fr, current - 1), current - 1,
                            diskroot)

repairReverseDiff(fr, diskroot) == repairLoop(fr, historyHead(fr), diskroot)

\* The store is opened on a log and a persisted root of any kind.
InitRepair ==
    /\ diffs = EmptyMap
    /\ base = 1
    /\ descendants = EmptyMap
    /\ lookup = EmptyLookup
    /\ buffer = EmptyBuffer
    /\ cache = EmptyCache
    /\ \E root \in 1 .. RepairRoots :
          /\ kv = [node |-> InitialState.node, acct |-> InitialState.acct,
                   slot |-> InitialState.slot, sid |-> 0, srt |-> root,
                   rid |-> EmptyMap]
          /\ disks = <<[root |-> root, id |-> 0, stale |-> FALSE]>>
          /\ layers = (root :> DiskRef(1))
          /\ gt = (root :> InitialState)
    /\ freezerOn = TRUE
    /\ freezer \in RepairLogs
    /\ numRoots = RepairRoots
    /\ fatal = FALSE
    /\ fl = NoFlush
    /\ rd = NoReader
    /\ wr = NoWriter
    /\ it = NoIter
    /\ boots = 0

\* loadDiffHead: the log is repaired and the disk layer takes the id.
Repair ==
    /\ boots = 0
    /\ LET res == repairReverseDiff(freezer, kv.srt)
       IN /\ freezer' = res.freezer
          /\ disks' = [disks EXCEPT ![1].id = res.head]
    /\ boots' = 1
    /\ UNCHANGED <<diffs, base, layers, descendants, lookup, buffer, cache, kv,
                   freezerOn, gt, numRoots, fatal, fl, rd, wr, it>>

NextRepair == Repair

SpecRepair == InitRepair /\ [][NextRepair]_vars

\* The ids of the entries of fr that can be read and have the root.
Matches(fr, root) ==
    {id \in fr.tail + 1 .. historyHead(fr) :
        fr.hist[id - fr.tail].ok /\ fr.hist[id - fr.tail].root = root}

\* What the claim says of the repair of fr that returned res.
Repaired(fr, root, res) ==
    /\ res.head = IF Matches(fr, root) = {} THEN fr.tail
                  ELSE CHOOSE id \in Matches(fr, root) :
                          \A x \in Matches(fr, root) : x <= id
    /\ historyHead(res.freezer) <= res.head

\* C33: the repair of a log returns the id of the newest entry with the
\* disk layer's root, or the tail when there is none, and leaves no entry
\* above the id it returns.
C33_Repair ==
    boots = 0 =>
        Repaired(freezer, kv.srt, repairReverseDiff(freezer, kv.srt))

\* The same for the logs whose entries can all be read.
RepairReadable ==
    (boots = 0 /\ \A k \in 1 .. Len(freezer.hist) : freezer.hist[k].ok) =>
        Repaired(freezer, kv.srt, repairReverseDiff(freezer, kv.srt))

----------------------------------------------------------------------------
(* truncateFromTail *)

\* Largest tail of the log a truncation is given, and largest limit.
MaxTail == 3
MaxLimit == 3

\* The width the unsigned difference newTail - oldTail is kept to: the 64
\* bits of the code cut to 16, far above every id of the model.
Width == 16

\* x as an unsigned integer of Width bits.
Unsigned(x) == x % (2 ^ Width)

\* int(x) of an unsigned x: the upper half reads as the negative numbers.
Signed(x) == IF x >= 2 ^ (Width - 1) THEN x - 2 ^ Width ELSE x

\* The number truncateFromTail returns.
prunedItems(w, head, limit) ==
    IF head <= limit THEN 0
    ELSE Signed(Unsigned((head - limit) - w.freezer.tail))

\* The logs a truncation may find, the entry written last included: the
\* entry of id i has root i, and its root -> id lookup is there or not.
InitTail ==
    /\ diffs = EmptyMap
    /\ disks = <<[root |-> 1, id |-> 0, stale |-> FALSE]>>
    /\ base = 1
    /\ layers = (1 :> DiskRef(1))
    /\ descendants = EmptyMap
    /\ lookup = EmptyLookup
    /\ buffer = EmptyBuffer
    /\ cache = EmptyCache
    /\ gt = (1 :> InitialState)
    /\ freezerOn = TRUE
    /\ \E tl \in 0 .. MaxTail, n \in 1 .. MaxLog :
          /\ freezer = [tail |-> tl,
                        hist |-> [k \in 1 .. n |-> [id |-> tl + k,
                                                   root |-> tl + k]]]
          /\ \E known \in SUBSET (tl + 1 .. tl + n) :
                kv = [node |-> InitialState.node, acct |-> InitialState.acct,
                      slot |-> InitialState.slot, sid |-> 0, srt |-> 1,
                      rid |-> [r \in known |-> r]]
    /\ numRoots = 1
    /\ fatal = FALSE
    /\ fl = NoFlush
    /\ rd = NoReader
    /\ wr = NoWriter
    /\ it = NoIter
    /\ boots = 0

\* storeReverseDiff's call: the head is the id of the entry written last.
TruncateTail ==
    /\ boots = 0
    /\ \E limit \in 0 .. MaxLimit :
          LET w == truncateFromTail(Cur, historyHead(freezer), limit)
          IN freezer' = w.freezer /\ kv' = w.kv
    /\ boots' = boots + 1
    /\ UNCHANGED <<diffs, disks, base, layers, descendants, lookup, buffer,
                   cache, freezerOn, gt, numRoots, fatal, fl, rd, wr, it>>

NextTail == TruncateTail

SpecTail == InitTail /\ [][NextTail]_vars

\* What the claim says of the truncation of s with limit that gave w and
\* returned n.
Truncated(s, limit, w, n) ==
    LET head == historyHead(s.freezer)
        old == s.freezer.tail
    IN /\ IF head - old > limit
          THEN /\ w.freezer.tail = head - limit
               /\ \A id \in old + 1 .. head - limit :
                     id \notin DOMAIN w.kv.rid
               /\ \A r \in DOMAIN s.kv.rid :
                     r > head - limit => r \in DOMAIN w.kv.rid
               /\ historyHead(w.freezer) = head
          ELSE w.freezer = s.freezer /\ w.kv = s.kv
       /\ w.freezer.tail >= old
       /\ n = w.freezer.tail - old
       /\ n >= 0

\* C34: a truncation prunes exactly when head - tail exceeds the limit; the
\* tail is then head - limit and the lookups of the pruned ids are gone;
\* otherwise nothing changes; the tail does not move back and the number
\* returned is the tail's advance, never negative.
C34_TruncateTail ==
    \A limit \in 0 .. MaxLimit :
        Truncated(Cur, limit,
                  truncateFromTail(Cur, historyHead(freezer), limit),
                  prunedItems(Cur, historyHead(freezer), limit))

\* The same without the number returned.
TruncatedLog ==
    \A limit \in 0 .. MaxLimit :
        LET w == truncateFromTail(Cur, historyHead(freezer), limit)
        IN Truncated(Cur, limit, w, w.freezer.tail - freezer.tail)

----------------------------------------------------------------------------
(* diffLayer.flatten, down to the disk layer *)

\* flatten of the diff layer r.  res is the layer returned: r itself (self),
\* or a new layer whose node map is the map of the layer target, the lowest
\* diff layer of the chain; the flag swapped is that of the layer the
\* recursion returned, the lowest layer itself or a new layer nothing else
\* refers to.
RECURSIVE flatten(_, _)
flatten(dfs, r) ==
    LET dl == dfs[r]
    IN IF ~IsDiff(dl.parent)
       THEN [diffs |-> dfs, fatal |-> FALSE,
             res |-> [self |-> TRUE, root |-> r, parent |-> dl.parent,
                      target |-> r, node |-> dl.node]]
       ELSE LET p == flatten(dfs, dl.parent[2])
                t == p.res.target
            IN IF p.fatal THEN p
               ELSE IF p.res.self /\ p.diffs[t].stale
               THEN [p EXCEPT !.fatal = TRUE]
               ELSE LET marked == IF p.res.self
                                  THEN [p.diffs EXCEPT ![t].stale = TRUE]
                                  ELSE p.diffs
                        merged == IF dl.node # Absent
                                  THEN [marked EXCEPT ![t].node = dl.node]
                                  ELSE marked
                    IN [diffs |-> merged, fatal |-> FALSE,
                        res |-> [self |-> FALSE, root |-> r,
                                 parent |-> p.res.parent, target |-> t,
                                 node |-> merged[t].node]]

\* A thread flattens a layer of the tree; call keeps what flatten returned.
Flatten ==
    /\ ~fatal
    /\ wr.pc = "idle"
    /\ \E r \in DOMAIN diffs :
          LET f == flatten(diffs, r)
          IN /\ diffs' = f.diffs
             /\ fatal' = f.fatal
             /\ wr' = [NoWriter EXCEPT !.mode = "flatten", !.dl = r,
                                       !.call = <<f.res>>]
    /\ UNCHANGED <<disks, base, layers, descendants, lookup, buffer, cache, kv,
                   freezer, freezerOn, gt, numRoots, fl, rd, it, boots>>

NextFlat == SerialAdd \/ Flatten

SpecFlat == Init /\ [][NextFlat]_vars

\* The node of the topmost layer at or below r that has one.
RECURSIVE TopNode(_, _)
TopNode(dfs, r) ==
    IF dfs[r].node # Absent THEN dfs[r].node
    ELSE IF IsDiff(dfs[r].parent) THEN TopNode(dfs, dfs[r].parent[2])
    ELSE Absent

\* The diff layers below r.
Below(dfs, r) == Reached([diffs |-> dfs, disks |-> disks], DiffRef(r)) \ {r}

\* What the claim says of the flatten of r that gave f.
Flattened(dfs, r, f) ==
    IF IsDisk(dfs[r].parent)
    THEN f.res.self /\ f.diffs = dfs
    ELSE /\ ~f.res.self
         /\ f.res.root = r
         /\ IsDisk(f.res.parent)
         /\ f.res.node = TopNode(dfs, r)
         /\ \A x \in Below(dfs, r) : f.diffs[x].stale
         /\ f.diffs[r] = dfs[r]

\* C35: flatten of a layer on the disk layer returns the layer and changes
\* nothing; flatten of another layer returns a new layer of the same root on
\* the disk layer with the topmost node of the chain, every diff layer below
\* is marked stale, and the layer itself is as it was.
C35_Flatten ==
    \A r \in DOMAIN diffs :
        LET f == flatten(diffs, r)
        IN ~f.fatal => Flattened(diffs, r, f)

\* The same without the flags of the layers below the parent.
FlattenedButFlags ==
    \A r \in DOMAIN diffs :
        LET f == flatten(diffs, r)
        IN (~f.fatal /\ IsDiff(diffs[r].parent)) =>
              /\ ~f.res.self
              /\ f.res.root = r
              /\ IsDisk(f.res.parent)
              /\ f.res.node = TopNode(diffs, r)
              /\ f.diffs[r] = diffs[r]
              /\ \E x \in Below(diffs, r) :
                    /\ IsDisk(diffs[x].parent)
                    /\ f.diffs[x].stale

\* The same for the layers with at most one diff layer below.
FlattenOne ==
    \A r \in DOMAIN diffs :
        LET f == flatten(diffs, r)
        IN (~f.fatal /\ Cardinality(Below(diffs, r)) <= 1) =>
              Flattened(diffs, r, f)

----------------------------------------------------------------------------
(* Properties of the lookup index and of the state ids *)

\* The lists of the lookup index.
LookupLists(lk) == {lk.nodes, lk.destructs, lk.accounts, lk.storages}

\* The root x is an ancestor of the diff layer of root y.
IsAncestor(s, x, y) ==
    /\ y \in DOMAIN s.diffs
    /\ x \in ancestors(s.diffs, s.disks, DiffRef(y))

\* C36: in every list of the lookup index a root that is an ancestor of
\* another root of the list comes before it.
C36_LookupOrder ==
    \A list \in LookupLists(lookup) :
        \A i, j \in 1 .. Len(list) :
            (list[i] # list[j] /\ IsAncestor(Cur, list[i], list[j])) => i < j

\* After a cap that persisted a layer and a restart, a list holds a root
\* and an ancestor of it.
C36_Witness ==
    /\ Len(disks) > 1
    /\ \E i, j \in 1 .. Len(lookup.nodes) :
          IsAncestor(Cur, lookup.nodes[i], lookup.nodes[j])

\* The names of the lists of the lookup index.
ListNames == {"nodes", "destructs", "accounts", "storages"}

\* The list of the lookup index of the given name.
ListOf(lk, n) ==
    CASE n = "nodes" -> lk.nodes
      [] n = "destructs" -> lk.destructs
      [] n = "accounts" -> lk.accounts
      [] n = "storages" -> lk.storages

\* The diff layer d holds an entry for the key of the list of the given
\* name.
Modified(d, n) ==
    CASE n = "nodes" -> d.node # Absent
      [] n = "destructs" -> d.destruct
      [] n = "accounts" -> d.acct # Absent
      [] n = "storages" -> d.slot # Absent

\* The roots of the list are the diff layers of the tree that modified the
\* key of the list.
ListMatchesTree(s, n) ==
    \A r \in Roots :
        (\E i \in 1 .. Len(ListOf(s.lookup, n)) : ListOf(s.lookup, n)[i] = r)
            <=> /\ r \in DOMAIN s.layers
                /\ IsDiff(s.layers[r])
                /\ Modified(s.diffs[r], n)

\* No root is twice in the list.
NoDuplicate(list) ==
    \A i, j \in 1 .. Len(list) : list[i] = list[j] => i = j

\* lookupNode, lookupAccount and lookupStorage return a layer for every head
\* of the tree.
LookupNeverNil(s) ==
    \A head \in DOMAIN s.layers, k \in Keys : lookupLayer(s, k, head) # NoRef

\* C37: a root is in a list of the lookup index exactly when it is the root
\* of a diff layer of the tree that modified the key, no list holds a root
\* twice, and the lookups return a layer for every head of the tree.
C37_LookupMatchesTree ==
    ~fatal =>
        /\ \A n \in ListNames : ListMatchesTree(Cur, n)
        /\ \A n \in ListNames : NoDuplicate(ListOf(lookup, n))
        /\ LookupNeverNil(Cur)

\* A cap persisted a diff layer that modified the node, and the list of the
\* nodes still holds a layer of the tree.
C37_Witness ==
    /\ ~fatal
    /\ Len(disks) > 1
    /\ \E r \in DOMAIN diffs :
          /\ diffs[r].node # Absent
          /\ ~(r \in DOMAIN layers /\ IsDiff(layers[r]))
    /\ lookup.nodes # <<>>

\* Every diff layer of the tree has the id of its parent plus one.
DiffIdsAligned(s) ==
    \A r \in DOMAIN s.layers :
        IsDiff(s.layers[r]) =>
            s.diffs[r].id = stateID(s.diffs, s.disks, s.diffs[r].parent) + 1

\* The persistent state id plus the number of layers in the buffer is the
\* id of the base.
BufferAligned(s) == s.kv.sid + s.buffer.layers = s.disks[s.base].id

\* The error of the alignment check of buffer.flush.
errUnaligned == "buffer layers can't be applied"

\* No cap of the state stops at the alignment check of buffer.flush.
FlushAligned(s) ==
    \A root \in DOMAIN s.layers, keep \in 0 .. MaxKeep :
        \A failRoot \in {0} \cup Persistable(s, root) :
            cap(s, root, keep, failRoot).err # errUnaligned

\* C38: every diff layer's id is its parent's id plus one, the persistent
\* state id plus buffer.layers is the id of the base, and no commit stops
\* at the alignment check of buffer.flush.
C38_IdAlignment ==
    ~fatal =>
        /\ DiffIdsAligned(Cur)
        /\ BufferAligned(Cur)
        /\ FlushAligned(Cur)

\* The alignment holds while no commit has failed in its flush: the base
\* of the tree is not stale.
AlignedUnlessStale ==
    (~fatal /\ ~disks[base].stale) =>
        /\ DiffIdsAligned(Cur)
        /\ BufferAligned(Cur)
        /\ FlushAligned(Cur)

\* The commit of r finds the history over the limit: the tail is truncated.
overflows(s, r) ==
    /\ freezerOn
    /\ StateHistory # 0
    /\ s.diffs[r].id - s.freezer.tail > StateHistory

\* The id of the oldest entry of the history.
oldestHistory(fr) == fr.tail + 1

TruncatesBelowState ==
    /\ ~disks[base].stale
    /\ \E r \in Bottoms(Cur) :
          LET w == commit(Cur, base, r, FALSE, 0)
          IN /\ w.err = "" /\ ~w.fatal
             /\ overflows(Cur, r)
             /\ ~forceRaised(Cur, r)
             /\ w.freezer.tail > freezer.tail

----------------------------------------------------------------------------
(* cap and flatten with their locks, against reads that hold read locks *)

\* Number of state roots of the runs with locks.
LiveMaxRoot == 3

LvAdd ==
    /\ numRoots < LiveMaxRoot
    /\ wr.pc = "idle"
    /\ Add

\* The positions of cap between tree.lock.Lock and its return.
CapHolds == {"tree", "persist", "commit"}

\* tree.get under the read lock of the tree, which cap holds for writing
\* from its start to its return; the read is a nodeBlob, which holds the
\* read lock of every layer it visits until it returns.
LvRdStart(root) ==
    /\ wr.pc \notin CapHolds
    /\ RdStart(root, "nodeBlob")

\* dl.lock.RLock of the layer the read is at: cap holds the lock of the
\* capped diff layer, flatten the lock of the parent.
LvRdCheck ==
    /\ IsDiff(rd.at) => rd.at # wr.held
    /\ RdCheck

\* The thread takes the result and is free for another read.
LvRdReturn ==
    /\ ~fatal
    /\ rd.pc = "done"
    /\ rd' = NoReader
    /\ UNCHANGED <<diffs, disks, base, layers, descendants, lookup, buffer,
                   cache, kv, freezer, freezerOn, gt, numRoots, fatal, fl, wr,
                   it, boots>>

\* flatten into a parent that was not flattened into before.
LvFlStart(dl) ==
    /\ dl \in DOMAIN diffs
    /\ IsDiff(diffs[dl].parent)
    /\ ~diffs[diffs[dl].parent[2]].stale
    /\ FlStart(dl)

\* The diff layer cap stops at after its dive, 0 when a disk layer comes
\* first; the layer itself for a full commit.
capDiff(s, root, keep) ==
    IF keep = 0 THEN root ELSE Dive(s.diffs, root, keep - 1)

\* The cap returns after the dive: the diff stack is too shallow.
capShallow(s, root, keep) ==
    /\ keep > 0
    /\ \/ capDiff(s, root, keep) = 0
       \/ IsDisk(s.diffs[capDiff(s, root, keep)].parent)

\* The clean cache as a read of a disk layer may leave it while cap waits
\* for its locks.
CachesAhead(s) ==
    {s.cache} \cup {diskReadCache(s, i, "node") : i \in 1 .. Len(s.disks)}

\* What cap does to the tree and the store once it has its locks, for each
\* content of the clean cache.
capAhead(s, root, keep, failRoot) ==
    [x \in CachesAhead(s) |-> cap([s EXCEPT !.cache = x], root, keep, failRoot)]

\* cap as far as tree.lock.Lock and the dive: a cap of a shallow stack
\* returns, a full commit goes on to persist, any other cap to the lock of
\* the diff layer it stopped at.  Nothing but the clean cache changes under
\* the lock of the tree before cap has its other locks.
LvCapStart(root, keep, failRoot) ==
    /\ ~fatal
    /\ wr.pc = "idle"
    /\ wr.mode \in {"", "cap"}
    /\ root \in DOMAIN layers
    /\ IsDiff(layers[root])
    /\ wr' = IF capShallow(Cur, root, keep)
             THEN [NoWriter EXCEPT !.mode = "cap"]
             ELSE [NoWriter EXCEPT
                      !.pc = IF keep = 0 THEN "persist" ELSE "tree",
                      !.mode = "cap",
                      !.dl = root,
                      !.keep = keep,
                      !.failRoot = failRoot,
                      !.call = <<capAhead(Cur, root, keep, failRoot)>>]
    /\ UNCHANGED <<diffs, disks, base, layers, descendants, lookup, buffer,
                   cache, kv, freezer, freezerOn, gt, numRoots, fatal, fl, rd,
                   it, boots>>

\* diff.lock.Lock succeeds: no read holds the read lock of the layer.
diffLock(r) == DiffRef(r) \notin rd.locks

\* diff.lock.Lock of the layer the dive stopped at.
LvDiffLock ==
    /\ ~fatal
    /\ wr.pc = "tree"
    /\ diffLock(capDiff(Cur, wr.dl, wr.keep))
    /\ wr' = [wr EXCEPT !.pc = "persist",
                        !.held = DiffRef(capDiff(Cur, wr.dl, wr.keep))]
    /\ UNCHANGED <<diffs, disks, base, layers, descendants, lookup, buffer,
                   cache, kv, freezer, freezerOn, gt, numRoots, fatal, fl, rd,
                   it, boots>>

\* persist as far as the first markStale, which waits for the lock of the
\* disk layer: a commit stopped by writeHistory returns its error with the
\* locks released, a markStale of a stale disk layer panics.
LvMark ==
    /\ ~fatal
    /\ wr.pc = "persist"
    /\ UNCHANGED <<fl, rd, boots>>
    /\ LET i == bottomDisk(Cur, wr.dl)
           c == wr.call[1][cache]
       IN IF c.fatal
          THEN /\ markStaleLock(i)
               /\ Install(c)
               /\ UNCHANGED wr
          ELSE IF disks[i].stale \/ ~c.disks[i].stale
          THEN /\ Install(c)
               /\ wr' = [NoWriter EXCEPT !.mode = "cap"]
          ELSE /\ markStaleLock(i)
               /\ Install([Cur EXCEPT !.disks[i].stale = TRUE])
               /\ wr' = [wr EXCEPT !.pc = "commit", !.disk = i]

\* The rest of the cap; the locks are released at the return.
LvFinish ==
    /\ ~fatal
    /\ wr.pc = "commit"
    /\ Install(wr.call[1][cache])
    /\ wr' = [NoWriter EXCEPT !.mode = "cap"]
    /\ UNCHANGED <<fl, rd, boots>>

\* The state s as Install leaves it.
Collected(s) ==
    [s EXCEPT !.diffs = [r \in Live(s) |-> s.diffs[r]],
              !.gt = [r \in Known(s) |-> s.gt[r]]]

\* cap in its steps does what cap does at once on the state it finds when
\* it has its locks.
CapAheadExact ==
    wr.pc \in {"persist", "commit"} =>
        /\ cache \in DOMAIN wr.call[1]
        /\ Collected(wr.call[1][cache]) =
              Collected(cap([Cur EXCEPT !.disks[bottomDisk(Cur, wr.dl)].stale =
                                IF wr.pc = "commit" THEN FALSE ELSE @],
                            wr.dl, wr.keep, wr.failRoot))

\* The steps of a read between tree.get and its return.
LiveRead == LvRdCheck \/ RdLocal \/ RdDisk \/ LvRdReturn

\* The steps of cap and flatten after their start.
LiveWrite ==
    \/ LvDiffLock
    \/ LvMark
    \/ LvFinish
    \/ FlMark
    \/ FlMergeBegin
    \/ FlMergeEnd
    \/ FlReturn

NextLive ==
    \/ LvAdd
    \/ \E root \in Roots : LvRdStart(root)
    \/ LvRdCheck
    \/ RdLocal
    \/ RdDisk
    \/ LvRdReturn
    \/ \E dl \in Roots : LvFlStart(dl)
    \/ FlMark
    \/ FlMergeBegin
    \/ FlMergeEnd
    \/ FlReturn
    \/ \E root \in Roots, keep \in 0 .. MaxKeep :
          \E failRoot \in {0} \cup Persistable(Cur, root) :
              LvCapStart(root, keep, failRoot)
    \/ LvDiffLock
    \/ LvMark
    \/ LvFinish

\* A thread that is runnable again and again runs: the goroutines are
\* scheduled preemptively, and a sync.RWMutex hands the lock to a waiting
\* writer before new readers and to the waiting readers when the writer
\* unlocks.
SpecLive ==
    /\ Init
    /\ [][NextLive]_vars
    /\ SF_vars(LiveRead)
    /\ SF_vars(LiveWrite)

\* The positions of a read between tree.get and its return.
Reading == {"check", "local", "disk"}

\* C40: every read that was started returns, and every cap and flatten that
\* was started returns.
C40_NoDeadlock ==
    /\ (rd.pc \in Reading) ~> (rd.pc = "done")
    /\ (wr.pc # "idle") ~> (wr.pc = "idle")

\* The same but for the panics: a read returns and a cap returns unless the
\* process has stopped.
ReturnsUnlessPanic ==
    /\ (rd.pc \in Reading) ~> (rd.pc = "done" \/ fatal)
    /\ (wr.pc # "idle") ~> (wr.pc = "idle" \/ fatal)

\* A read waits for the lock of the diff layer that cap holds.
ReadWaitsForCap ==
    /\ rd.pc = "check"
    /\ wr.pc \in {"persist", "commit"}
    /\ rd.at = wr.held

\* A read that holds the lock of a layer waits for the lock of the parent,
\* which flatten holds.
ReadWaitsForFlatten ==
    /\ rd.pc = "check"
    /\ rd.locks # {}
    /\ WriteLocked(rd.at)

\* cap, holding the lock of a diff layer, waits in markStale for the lock of
\* the disk layer, which a read holds.
CapWaitsForRead ==
    /\ wr.pc = "persist"
    /\ wr.held # NoRef
    /\ ~markStaleLock(bottomDisk(Cur, wr.dl))

====
